---- MODULE Spec2Model ----
(***************************************************************************)
(* db-yard: reconciliation engine and process lifecycle.                   *)
(*                                                                         *)
(* Two supervisors share one world (database files, child processes, the   *)
(* clock):                                                                 *)
(*   - startOrchestrator (lib/governance.ts): the in-memory running set    *)
(*     runningByDb, the per-file backoff table, the periodic loop;         *)
(*   - watchYardInSession (lib/serve/watch.ts): the debounced, serialized  *)
(*     reconcileOnce loop over the session's context files.                *)
(* The variable `entry` records which of the two entry points the run      *)
(* uses; the other supervisor's state stays at its initial value.          *)
(***************************************************************************)
EXTENDS Integers, Sequences, FiniteSets, TLC

(* ------------------------------ bounds --------------------------------- *)

\* pids handed out by the operating system: 1..MaxPid, never reused
MaxPid == 5
\* the clock stops advancing past MaxNow (ms)
MaxNow == 16500
\* (size, mtime) stamps a database file cycles through: 0..MaxVer
MaxVer == 1
\* reconcileOnce passes that watch mode may start
MaxPasses == 2
\* triggers that may pile up while one reconcileOnce pass is running
MaxCoalesced == 2
\* things the outside world does during a run: file changes, child deaths,
\* failed spawns, failed writes
MaxWorld == 1
\* calls of killPID on the same pid
MaxCalls == 2
\* roots given on the command line
MaxRoots == 2
\* termination signals delivered to the supervisor
MaxSignals == 2
\* session directories created under one ledger root
MaxSessions == 2
\* filesystem events delivered to materializeWatch
MaxEvents == 2

(* ------------------------- program constants --------------------------- *)

RESPAWN_BACKOFF_MS == 15000
FAST_EXIT_MS == 750
\* cfg.reconcileMs: the run is started with --reconcile-ms 7500
reconcileMs == 7500
\* this session's owner token (loadOrCreateOwnerToken)
ownerToken == "tok-self"
\* spawnOpts.portStart default
PortStart == 3000

(* ------------------------------- paths --------------------------------- *)
\* A path is the sequence of its segments: /a/x is <<"a", "x">>.

WatchRoots == << <<"a">>, <<"b">> >>

\* the database files the run can see, in directory-walk order
DbPathSeq == << <<"a", "x">>, <<"a", "y">>, <<"b", "x">> >>

DbPaths == { DbPathSeq[i] : i \in 1..Len(DbPathSeq) }

None == << >>
Some(v) == << v >>
IsSome(o) == o # << >>
Val(o) == o[1]

IsPrefix(r, p) == Len(r) <= Len(p) /\ SubSeq(p, 1, Len(r)) = r

\* the elements of `order` that are in S, in the order of `order`
RECURSIVE SeqOfSet(_, _)
SeqOfSet(order, S) ==
  IF order = << >> THEN << >>
  ELSE IF Head(order) \in S
       THEN << Head(order) >> \o SeqOfSet(Tail(order), S)
       ELSE SeqOfSet(Tail(order), S)

safeBaseName(path) == path[Len(path)]

\* first root, in list order, that contains the file
RECURSIVE computeRelPath(_, _)
computeRelPath(watchRootsAbs, dbAbsPath) ==
  IF watchRootsAbs = << >> THEN None
  ELSE LET r == Head(watchRootsAbs) IN
       IF dbAbsPath = r THEN Some(<< "." >>)
       ELSE IF IsPrefix(r, dbAbsPath)
            THEN Some(SubSeq(dbAbsPath, Len(r) + 1, Len(dbAbsPath)))
            ELSE computeRelPath(Tail(watchRootsAbs), dbAbsPath)

defaultRelativeInstanceId(relOrAbs) ==
  IF relOrAbs = << >> THEN << "db" >> ELSE relOrAbs

computeInstanceId(watchRootsAbs, dbAbsPath, dbYardConfig) ==
  LET rel == computeRelPath(watchRootsAbs, dbAbsPath) IN
  IF IsSome(dbYardConfig) THEN Val(dbYardConfig)
  ELSE defaultRelativeInstanceId(IF IsSome(rel) THEN Val(rel) ELSE dbAbsPath)

\* the `.db-yard` sidecar's "instance.id" of a file: the modelled files have none
readDbYardConfig(dbPath) == None

(* ------------------------------ fnv1a32 -------------------------------- *)
\* A 32-bit hash is kept as << high 16 bits, low 16 bits >>.

RECURSIVE Xor(_, _, _)
Xor(a, b, bits) ==
  IF bits = 0 THEN 0
  ELSE (((a % 2) + (b % 2)) % 2) + 2 * Xor(a \div 2, b \div 2, bits - 1)

\* char codes of the path segments in use; "/" (47) joins segments
CharCodes(seg) ==
  CASE seg = "a" -> << 97 >>
    [] seg = "b" -> << 98 >>
    [] seg = "x" -> << 120 >>
    [] seg = "y" -> << 121 >>
    [] seg = "." -> << 46 >>
    [] seg = "db" -> << 100, 98 >>

RECURSIVE PathChars(_)
PathChars(path) ==
  IF path = << >> THEN << >>
  ELSE IF Len(path) = 1 THEN CharCodes(path[1])
       ELSE CharCodes(path[1]) \o << 47 >> \o PathChars(Tail(path))

\* h ^= c; h = Math.imul(h, 0x01000193), on 16-bit limbs
FnvStep(h, c) ==
  LET lo == Xor(h[2], c, 16)
      hi == h[1]
      t == lo * 403
  IN << ((hi * 403) + (t \div 65536) + ((lo % 256) * 256)) % 65536, t % 65536 >>

RECURSIVE FnvFold(_, _)
FnvFold(h, chars) ==
  IF chars = << >> THEN h ELSE FnvFold(FnvStep(h, Head(chars)), Tail(chars))

\* 0x811c9dc5 = << 0x811c, 0x9dc5 >>
fnv1a32Hex(s) == FnvFold(<< 33052, 40389 >>, PathChars(s))

spawnedJsonPath(dbBasename, instanceId) == << dbBasename, fnv1a32Hex(instanceId) >>

Ids == { computeInstanceId(WatchRoots, f, readDbYardConfig(f)) : f \in DbPaths }

JsonPaths == { spawnedJsonPath(safeBaseName(f), i) : f \in DbPaths, i \in Ids }

RECURSIVE SortSet(_)
SortSet(S) ==
  IF S = {} THEN << >>
  ELSE LET m == CHOOSE x \in S : \A y \in S : x <= y
       IN << m >> \o SortSet(S \ {m})

(* ------------------------------- state --------------------------------- *)

VARIABLES
  entry,         \* "orch": startOrchestrator, "watch": watchYardInSession
  \* the world
  fs,            \* database file -> [exists, ver (size+mtime stamp), cls (a driver is chosen)]
  alive,         \* pids of live child processes
  nextPid,       \* next pid the operating system hands out
  now,           \* Date.now()
  worldLeft,     \* changes the outside world may still make
  notify,        \* changed paths whose watcher event is not delivered yet
  \* startOrchestrator
  runningByDb,   \* dbPath -> None | Some(SpawnedRecord)
  jsonFiles,     \* <<basename, hash>>.json in spawnedDir -> None | Some(SpawnedRecord)
  pidsFile,      \* spawned-pids.txt: None | Some([pids (the list), mtime (time of the last write)])
  pending,       \* paths enqueued by filesystem events
  failuresByDb,  \* dbPath -> None | Some([lastFailAtMs, failCount])
  closed,        \* Orchestrator.close() was called
  opc,           \* position of the orchestrator: boot, ensure, stop, delta, sleep, exited, crashed
  todo,          \* paths the running pass still has to handle
  live,          \* reconcileFull's snapshot of the files on disk
  counters,      \* ChangeCounters of the running pass
  oActive,       \* reconcileFull / reconcileDelta calls in flight
  started,       \* startOrchestrator has returned the Orchestrator
  \* watchYardInSession
  ctxFiles,      \* <rel>.context.json in sessionHome -> None | Some([id, pid, loc, port])
  aborted,       \* opts.signal.aborted
  reconcileRunning, \* the promise of the running pass is set
  reconcileQueued,
  debounceTimer, \* the debounce timeout is armed
  wpc,           \* position of watchYardInSession: boot, watching, returned
  wphase,        \* position of the reconcileOnce pass: idle, kill, spawn, write, end
  toSpawn,       \* ids the running pass hands to spawnMissing
  wtodo,         \* services the spawn() generator still has to visit
  activePasses,  \* reconcileOnce calls in flight
  passes,        \* reconcileOnce calls started so far
  coalesced,     \* schedule() calls that found the current pass running
  port,          \* `port` of the spawn() generator
  wlog,          \* what opts.onWatchEvent has received of the pass started last:
                 \* [on (a listener is configured), reason (of reconcile_start),
                 \* errors (phases of the error events), ends (reconcile_end events)]
  \* history
  quietPasses,   \* full passes begun since the last file change, child death or failed
                 \* read of a watch-mode pass (0, 1, 2 = two or more)
  lastPass,      \* the pass the orchestrator started last: none, full, delta
  \* helpers and one-shot commands, run on their own
  kp,            \* killPID(pid): [pc, i, termed, sent, calls, leader, others]
  dr,            \* reconcile(home) and kill of lib/materialize.ts, lib/spawn.ts:
                 \* [pc, ledger, tags, items, summary, signalled]
  sessions,      \* the sessions created so far, in order: [by (the entry point),
                 \* sessionHome (its directory)]
  mw,            \* materializeWatch: [pc, timer, pending, touched, removed, queue,
                 \* runs, yielded, tagged]
  \* pure functions and one-shot routines, applied on their own
  pf,            \* the path functions: [pc, roots, file, rel, id, relFromRoot,
                 \* proxyEndpointPrefix]
  ex,            \* the exit routine of bin/yard.ts: [pc, killAllOnExit, exitKillRan,
                 \* sweep, sweeps, todo, code, signals]
  sg,            \* one run of the spawn() generator: [pc, todo, portStart, port,
                 \* spawned, skipped, errored, yielded, visited]
  \* options
  adoptForeign   \* --adopt-foreign-state was given

worldVars == << fs, alive, nextPid, now, worldLeft, notify >>
orchVars == << runningByDb, jsonFiles, pidsFile, pending, failuresByDb, closed,
               opc, todo, live, counters, oActive, started >>
watchVars == << ctxFiles, aborted, reconcileRunning, reconcileQueued, debounceTimer,
                wpc, wphase, toSpawn, wtodo, activePasses, passes, coalesced, port,
                wlog >>
utilVars == << pf, ex, sg >>
cmdVars == << kp, dr, adoptForeign, sessions, mw, utilVars >>
vars == << entry, worldVars, orchVars, watchVars, quietPasses, lastPass, cmdVars >>

Pids == 1..MaxPid

adoptForeignStateEnabled == TRUE

\* cfg.adoptForeignState
adoptForeignState == adoptForeign

\* the command line gives no --adopt-foreign-state
DefaultOptions == adoptForeign = FALSE

AbsentFile == [exists |-> FALSE, ver |-> 0, cls |-> FALSE]

\* what a database file can be when the supervisor starts
InitialFiles ==
  { AbsentFile } \cup { [exists |-> TRUE, ver |-> 0, cls |-> c] : c \in BOOLEAN }

isPidAlive(pid) == pid \in alive

ZeroCounters == [spawned |-> 0, stopped |-> 0, refreshed |-> 0, skipped |-> 0]

\* no call of killPID is being followed step by step
NoKill == [pc |-> "idle", i |-> 0, termed |-> FALSE, sent |-> << >>, calls |-> 0,
           leader |-> FALSE, others |-> FALSE]

\* no discrepancy report is being computed
NoReconcile == [pc |-> "off", ledger |-> << >>, tags |-> << >>, items |-> << >>,
                summary |-> << >>, signalled |-> {}]

\* materializeWatch is not running
NoMaterializeWatch ==
  [pc |-> "off", timer |-> FALSE, pending |-> FALSE, touched |-> {}, removed |-> {},
   queue |-> << >>, runs |-> 0, yielded |-> 0, tagged |-> {}]

\* no session directory was created, materializeWatch is not running
\* no path function is being applied
NoPaths == [pc |-> "off", roots |-> << >>, file |-> << >>, rel |-> << >>, id |-> << >>,
            relFromRoot |-> << >>, proxyEndpointPrefix |-> << >>]

\* the exit handlers of bin/yard.ts are not installed
NoExit == [pc |-> "off", killAllOnExit |-> FALSE, exitKillRan |-> FALSE, sweep |-> "none",
           sweeps |-> 0, todo |-> << >>, code |-> 0, signals |-> 0]

\* no run of the spawn() generator is followed on its own
NoSpawn == [pc |-> "off", todo |-> << >>, portStart |-> 0, port |-> 0, spawned |-> << >>,
            skipped |-> << >>, errored |-> << >>, yielded |-> << >>, visited |-> << >>]

UtilIdle == pf = NoPaths /\ ex = NoExit /\ sg = NoSpawn

OthersIdle == sessions = << >> /\ mw = NoMaterializeWatch /\ UtilIdle

\* the helpers and commands that a supervisor run does not follow
CmdIdle == kp = NoKill /\ dr = NoReconcile /\ OthersIdle

\* quietPasses when one more pass begins
onePassMore == IF quietPasses < 2 THEN quietPasses + 1 ELSE 2

(* ------------------------ orchestrator helpers ------------------------- *)

dbChangedNever(rec, st) == FALSE

dbChanged(rec, st) == st.ver # rec.fileVer

shouldThrottleInclusive(dbPath) ==
  LET f == failuresByDb[dbPath] IN
  IF ~IsSome(f) THEN FALSE
  ELSE (now - Val(f).lastFailAtMs) <= RESPAWN_BACKOFF_MS

shouldThrottle(dbPath) ==
  LET f == failuresByDb[dbPath] IN
  IF ~IsSome(f) THEN FALSE
  ELSE (now - Val(f).lastFailAtMs) < RESPAWN_BACKOFF_MS

\* the failure table after noteFailure(dbPath) at time t
noteFailure(dbPath, t) ==
  LET f == failuresByDb[dbPath] IN
  IF ~IsSome(f)
  THEN [failuresByDb EXCEPT ![dbPath] = Some([lastFailAtMs |-> t, failCount |-> 1])]
  ELSE [failuresByDb EXCEPT ![dbPath] =
          Some([lastFailAtMs |-> t, failCount |-> Val(f).failCount + 1])]

writeSpawnedPidsFileAlways(pids, t) ==
  Some([pids |-> SortSet({ p \in pids : p > 0 }), mtime |-> t])

\* spawned-pids.txt after writeSpawnedPidsFile(spawnedDir, pids) called at
\* time t: the file keeps its modification time when the content is the same
writeSpawnedPidsFile(pids, t) ==
  LET content == SortSet({ p \in pids : p > 0 }) IN
  IF IsSome(pidsFile) /\ Val(pidsFile).pids = content
  THEN pidsFile
  ELSE Some([pids |-> content, mtime |-> t])

updatePidsFileFromRunning(rb, t) ==
  writeSpawnedPidsFile(
    { Val(rb[d]).pid : d \in { e \in DbPaths :
         IsSome(rb[e]) /\ (Val(rb[e]).owner = ownerToken \/ adoptForeignState) } }, t)

existingAliveStale(dbAbsPath) == IsSome(runningByDb[dbAbsPath])

existingAlive(dbAbsPath) ==
  IsSome(runningByDb[dbAbsPath]) /\ isPidAlive(Val(runningByDb[dbAbsPath]).pid)

\* refreshRecordIfChanged(rec, counters) for the record kept under dbAbsPath
refreshRecordIfChanged(dbAbsPath) ==
  LET rec == Val(runningByDb[dbAbsPath])
      st == fs[rec.dbPath]
      seen == [rec EXCEPT !.lastSeenAtMs = now]
      fresh == [rec EXCEPT !.lastSeenAtMs = now, !.fileVer = st.ver]
  IN
  /\ UNCHANGED << alive, nextPid, now, worldLeft, pidsFile, failuresByDb >>
  /\ IF ~st.exists
     THEN UNCHANGED << runningByDb, jsonFiles, counters >>
     ELSE IF ~dbChanged(rec, st)
     THEN /\ runningByDb' = [runningByDb EXCEPT ![dbAbsPath] = Some(seen)]
          /\ UNCHANGED << jsonFiles, counters >>
     ELSE /\ runningByDb' = [runningByDb EXCEPT ![dbAbsPath] = Some(fresh)]
          /\ jsonFiles' = [jsonFiles EXCEPT
                             ![spawnedJsonPath(rec.dbBasename, rec.id)] = Some(fresh)]
          /\ counters' = [counters EXCEPT !.refreshed = @ + 1]

\* what a spawn attempt can meet: spawnDetachedAndGetPid throws; the child is
\* dead at the fast-exit check; the child is alive and the record is written;
\* the child is alive and writeSpawnedRecord throws
SpawnOutcomes == { "spawn_error", "fast_exit", "alive", "write_error" }

\* ensureSpawnedForDb gets as far as spawnDetachedAndGetPid
reachesSpawn(dbAbsPath) ==
  /\ fs[dbAbsPath].exists
  /\ ~existingAlive(dbAbsPath)
  /\ ~shouldThrottle(dbAbsPath)
  /\ fs[dbAbsPath].cls

\* ensureSpawnedForDb rejects (the exception of writeSpawnedRecord propagates)
ensureThrows(dbAbsPath, outcome) ==
  reachesSpawn(dbAbsPath) /\ outcome = "write_error"

SpawnedRecord(dbAbsPath, pid, t) ==
  [ id |-> computeInstanceId(WatchRoots, dbAbsPath, readDbYardConfig(dbAbsPath)),
    dbPath |-> dbAbsPath,
    dbBasename |-> safeBaseName(dbAbsPath),
    pid |-> pid,
    fileVer |-> fs[dbAbsPath].ver,
    lastSeenAtMs |-> t,
    owner |-> ownerToken ]

spawnAndRecordNoFastExitCheck(dbAbsPath, outcome) ==
  LET pid == nextPid
      t == now + FAST_EXIT_MS
      rec == SpawnedRecord(dbAbsPath, pid, t)
      rb == [runningByDb EXCEPT ![dbAbsPath] = Some(rec)]
  IN
  CASE outcome = "spawn_error" ->
         /\ worldLeft > 0
         /\ worldLeft' = worldLeft - 1
         /\ failuresByDb' = noteFailure(dbAbsPath, now)
         /\ counters' = [counters EXCEPT !.skipped = @ + 1]
         /\ UNCHANGED << alive, nextPid, now, runningByDb, jsonFiles, pidsFile >>
    [] outcome = "fast_exit" ->
         /\ worldLeft > 0
         /\ worldLeft' = worldLeft - 1
         /\ pid <= MaxPid
         /\ t <= MaxNow
         /\ nextPid' = nextPid + 1
         /\ now' = t
         /\ runningByDb' = rb
         /\ jsonFiles' = [jsonFiles EXCEPT
                            ![spawnedJsonPath(rec.dbBasename, rec.id)] = Some(rec)]
         /\ pidsFile' = updatePidsFileFromRunning(rb, t)
         /\ counters' = [counters EXCEPT !.spawned = @ + 1]
         /\ UNCHANGED << alive, failuresByDb >>
    [] outcome = "alive" ->
         /\ pid <= MaxPid
         /\ t <= MaxNow
         /\ nextPid' = nextPid + 1
         /\ now' = t
         /\ alive' = alive \cup {pid}
         /\ runningByDb' = rb
         /\ jsonFiles' = [jsonFiles EXCEPT
                            ![spawnedJsonPath(rec.dbBasename, rec.id)] = Some(rec)]
         /\ pidsFile' = updatePidsFileFromRunning(rb, t)
         /\ counters' = [counters EXCEPT !.spawned = @ + 1]
         /\ UNCHANGED << failuresByDb, worldLeft >>
    [] outcome = "write_error" ->
         /\ worldLeft > 0
         /\ worldLeft' = worldLeft - 1
         /\ pid <= MaxPid
         /\ t <= MaxNow
         /\ nextPid' = nextPid + 1
         /\ now' = t
         /\ alive' = alive \cup {pid}
         /\ runningByDb' = rb
         /\ UNCHANGED << jsonFiles, pidsFile, counters, failuresByDb >>

spawnAndRecord(dbAbsPath, outcome) ==
  LET pid == nextPid
      t == now + FAST_EXIT_MS
      rec == SpawnedRecord(dbAbsPath, pid, t)
      rb == [runningByDb EXCEPT ![dbAbsPath] = Some(rec)]
  IN
  CASE outcome = "spawn_error" ->
         /\ worldLeft > 0
         /\ worldLeft' = worldLeft - 1
         /\ failuresByDb' = noteFailure(dbAbsPath, now)
         /\ counters' = [counters EXCEPT !.skipped = @ + 1]
         /\ UNCHANGED << alive, nextPid, now, runningByDb, jsonFiles, pidsFile >>
    [] outcome = "fast_exit" ->
         /\ worldLeft > 0
         /\ worldLeft' = worldLeft - 1
         /\ pid <= MaxPid
         /\ t <= MaxNow
         /\ nextPid' = nextPid + 1
         /\ now' = t
         /\ failuresByDb' = noteFailure(dbAbsPath, t)
         /\ counters' = [counters EXCEPT !.skipped = @ + 1]
         /\ UNCHANGED << alive, runningByDb, jsonFiles, pidsFile >>
    [] outcome = "alive" ->
         /\ pid <= MaxPid
         /\ t <= MaxNow
         /\ nextPid' = nextPid + 1
         /\ now' = t
         /\ alive' = alive \cup {pid}
         /\ runningByDb' = rb
         /\ jsonFiles' = [jsonFiles EXCEPT
                            ![spawnedJsonPath(rec.dbBasename, rec.id)] = Some(rec)]
         /\ pidsFile' = updatePidsFileFromRunning(rb, t)
         /\ counters' = [counters EXCEPT !.spawned = @ + 1]
         /\ UNCHANGED << failuresByDb, worldLeft >>
    [] outcome = "write_error" ->
         /\ worldLeft > 0
         /\ worldLeft' = worldLeft - 1
         /\ pid <= MaxPid
         /\ t <= MaxNow
         /\ nextPid' = nextPid + 1
         /\ now' = t
         /\ alive' = alive \cup {pid}
         /\ runningByDb' = rb
         /\ UNCHANGED << jsonFiles, pidsFile, counters, failuresByDb >>

ensureSpawnedForDb(dbAbsPath, outcome) ==
  IF ~fs[dbAbsPath].exists
  THEN UNCHANGED << alive, nextPid, now, worldLeft, runningByDb, jsonFiles,
                    pidsFile, failuresByDb, counters >>
  ELSE IF existingAlive(dbAbsPath)
  THEN refreshRecordIfChanged(dbAbsPath)
  ELSE IF shouldThrottle(dbAbsPath)
  THEN /\ counters' = [counters EXCEPT !.skipped = @ + 1]
       /\ UNCHANGED << alive, nextPid, now, worldLeft, runningByDb, jsonFiles,
                       pidsFile, failuresByDb >>
  ELSE IF ~fs[dbAbsPath].cls
  THEN UNCHANGED << alive, nextPid, now, worldLeft, runningByDb, jsonFiles,
                    pidsFile, failuresByDb, counters >>
  ELSE spawnAndRecord(dbAbsPath, outcome)

\* the processes left alive by stopByPid(pid): SIGTERM, then SIGKILL, end the child
stopByPid(pid) == alive \ {pid}

stopForDb(dbAbsPath) ==
  /\ UNCHANGED << nextPid, now, worldLeft, failuresByDb >>
  /\ IF ~IsSome(runningByDb[dbAbsPath])
     THEN UNCHANGED << alive, runningByDb, jsonFiles, pidsFile, counters >>
     ELSE LET rec == Val(runningByDb[dbAbsPath])
              rb == [runningByDb EXCEPT ![dbAbsPath] = None]
          IN IF rec.owner # ownerToken /\ ~adoptForeignState
             THEN /\ runningByDb' = rb
                  /\ counters' = [counters EXCEPT !.skipped = @ + 1]
                  /\ pidsFile' = updatePidsFileFromRunning(rb, now)
                  /\ UNCHANGED << alive, jsonFiles >>
             ELSE /\ alive' = stopByPid(rec.pid)
                  /\ runningByDb' = rb
                  /\ jsonFiles' = [jsonFiles EXCEPT
                                     ![spawnedJsonPath(rec.dbBasename, rec.id)] = None]
                  /\ pidsFile' = updatePidsFileFromRunning(rb, now)
                  /\ counters' = [counters EXCEPT !.stopped = @ + 1]

\* the context files left by cleanupSpawnedDir(spawnedDir, liveDbPaths)
cleanupSpawnedDir(liveDbPaths) ==
  [ p \in JsonPaths |->
      IF IsSome(jsonFiles[p]) /\ Val(jsonFiles[p]).dbPath \notin liveDbPaths
      THEN None ELSE jsonFiles[p] ]

StopListAll(rb, liveDbPaths) ==
  SeqOfSet(DbPathSeq, { d \in DbPaths : IsSome(rb[d]) })

\* running keys that reconcileFull hands to stopForDb
StopList(rb, liveDbPaths) ==
  SeqOfSet(DbPathSeq, { d \in DbPaths : IsSome(rb[d]) /\ d \notin liveDbPaths })

\* the loop's `while (!closed)` test after a pass
AfterPass == IF closed THEN "exited" ELSE "sleep"

\* spawnedDir in Deno.readDir order
JsonPathSeq ==
  CHOOSE q \in [1..Cardinality(JsonPaths) -> JsonPaths] :
    \A p \in JsonPaths : \E i \in 1..Cardinality(JsonPaths) : q[i] = p

\* the running set after the "Adopt state" loop of startOrchestrator
RECURSIVE adoptState(_, _)
adoptState(paths, rb) ==
  IF paths = << >> THEN rb
  ELSE LET o == jsonFiles[Head(paths)] IN
       IF \/ ~IsSome(o)
          \/ ~fs[Val(o).dbPath].exists
          \/ (Val(o).owner # ownerToken /\ ~adoptForeignState)
       THEN adoptState(Tail(paths), rb)
       ELSE adoptState(Tail(paths), [rb EXCEPT ![Val(o).dbPath] = o])

(* ------------------------ orchestrator actions -------------------------- *)

\* startOrchestrator up to the first reconcileFull: adopt state, write the pid file
StartOrchestrator ==
  /\ entry = "orch"
  /\ opc = "boot"
  /\ LET rb == adoptState(JsonPathSeq, runningByDb) IN
       /\ runningByDb' = rb
       /\ pidsFile' = updatePidsFileFromRunning(rb, now)
  /\ jsonFiles' = [ p \in JsonPaths |->
                      IF IsSome(jsonFiles[p]) /\ ~fs[Val(jsonFiles[p]).dbPath].exists
                      THEN None ELSE jsonFiles[p] ]
  /\ opc' = "begin"
  /\ UNCHANGED watchVars
  /\ UNCHANGED << entry, cmdVars, lastPass, quietPasses, worldVars, pending, failuresByDb, closed, todo, live,
                  counters, oActive, started >>

\* reconcileFull starts: expandAll snapshots the files on disk
reconcileFullBegin ==
  LET files == SeqOfSet(DbPathSeq, { f \in DbPaths : fs[f].exists })
      lv == { f \in DbPaths : fs[f].exists }
  IN
  /\ live' = lv
  /\ counters' = ZeroCounters
  /\ oActive' = oActive + 1
  /\ quietPasses' = onePassMore
  /\ lastPass' = "full"
  /\ IF files # << >>
     THEN opc' = "ensure" /\ todo' = files
     ELSE opc' = "stop" /\ todo' = StopList(runningByDb, lv)

\* the `await reconcileFull()` of startOrchestrator
InitialReconcile ==
  /\ entry = "orch"
  /\ opc = "begin"
  /\ reconcileFullBegin
  /\ UNCHANGED watchVars
  /\ UNCHANGED << entry, cmdVars, worldVars, runningByDb, jsonFiles, pidsFile, pending,
                  failuresByDb, closed, started >>

\* the periodic loop: the reconcileMs timer fires, the batch is taken, a pass starts
LoopWake ==
  /\ entry = "orch"
  /\ opc = "sleep"
  /\ now + reconcileMs <= MaxNow
  /\ now' = now + reconcileMs
  /\ pending' = {}
  /\ IF pending # {}
     THEN /\ opc' = "delta"
          /\ todo' = SeqOfSet(DbPathSeq, pending)
          /\ counters' = ZeroCounters
          /\ oActive' = oActive + 1
          /\ lastPass' = "delta"
          /\ UNCHANGED << live, quietPasses >>
     ELSE reconcileFullBegin
  /\ UNCHANGED watchVars
  /\ UNCHANGED << entry, cmdVars, fs, alive, nextPid, worldLeft, notify, runningByDb,
                  jsonFiles, pidsFile, failuresByDb, closed, started >>

\* reconcileFull: `for (const f of files) await ensureSpawnedForDb(f, counters)`
EnsureStep ==
  /\ entry = "orch"
  /\ opc = "ensure"
  /\ todo # << >>
  /\ \E outcome \in SpawnOutcomes :
       /\ ensureSpawnedForDb(Head(todo), outcome)
       /\ IF ensureThrows(Head(todo), outcome)
          THEN opc' = "crashed" /\ todo' = << >> /\ oActive' = oActive - 1
          ELSE IF Tail(todo) = << >>
          THEN opc' = "stop" /\ todo' = StopList(runningByDb', live)
               /\ UNCHANGED oActive
          ELSE opc' = opc /\ todo' = Tail(todo) /\ UNCHANGED oActive
  /\ UNCHANGED watchVars
  /\ UNCHANGED << entry, cmdVars, lastPass, quietPasses, fs, notify, pending, closed, live, started >>

\* reconcileFull: `if (!live.has(dbPath)) await stopForDb(dbPath, counters)`
StopStep ==
  /\ entry = "orch"
  /\ opc = "stop"
  /\ todo # << >>
  /\ stopForDb(Head(todo))
  /\ todo' = Tail(todo)
  /\ UNCHANGED watchVars
  /\ UNCHANGED << entry, cmdVars, lastPass, quietPasses, fs, notify, pending, closed, opc, live, oActive, started >>

\* reconcileFull: cleanupSpawnedDir, then the pass returns
CleanupStep ==
  /\ entry = "orch"
  /\ opc = "stop"
  /\ todo = << >>
  /\ jsonFiles' = cleanupSpawnedDir(live)
  /\ oActive' = oActive - 1
  /\ started' = TRUE
  /\ opc' = AfterPass
  /\ UNCHANGED watchVars
  /\ UNCHANGED << entry, cmdVars, lastPass, quietPasses, worldVars, runningByDb, pidsFile, pending, failuresByDb,
                  closed, todo, live, counters >>

\* reconcileDelta: one path of the batch
DeltaStep ==
  /\ entry = "orch"
  /\ opc = "delta"
  /\ todo # << >>
  /\ \E outcome \in SpawnOutcomes :
       /\ IF fs[Head(todo)].exists
          THEN ensureSpawnedForDb(Head(todo), outcome)
          ELSE stopForDb(Head(todo))
       /\ IF ensureThrows(Head(todo), outcome)
          THEN opc' = "crashed" /\ todo' = << >> /\ oActive' = oActive - 1
          ELSE IF Tail(todo) = << >>
          THEN opc' = AfterPass /\ todo' = << >> /\ oActive' = oActive - 1
          ELSE opc' = opc /\ todo' = Tail(todo) /\ UNCHANGED oActive
  /\ UNCHANGED watchVars
  /\ UNCHANGED << entry, cmdVars, lastPass, quietPasses, fs, notify, pending, closed, live, started >>

\* a watcher event for a path that passes the glob filter
enqueueWhenIdle(path) == IF oActive > 0 THEN pending ELSE pending \cup {path}

\* enqueue(path): the paths of the model pass the glob filter
enqueue(path) == pending \cup {path}

Enqueue(path) ==
  /\ entry = "orch"
  /\ started
  /\ ~closed
  /\ opc # "crashed"
  /\ path \in notify
  /\ notify' = notify \ {path}
  /\ pending' = enqueue(path)
  /\ UNCHANGED watchVars
  /\ UNCHANGED << entry, cmdVars, lastPass, quietPasses, fs, alive, nextPid, now, worldLeft, runningByDb, jsonFiles, pidsFile, failuresByDb,
                  closed, opc, todo, live, counters, oActive, started >>

\* Orchestrator.close()
Close ==
  /\ entry = "orch"
  /\ started
  /\ ~closed
  /\ opc # "crashed"
  /\ closed' = TRUE
  /\ UNCHANGED watchVars
  /\ UNCHANGED << entry, cmdVars, lastPass, quietPasses, worldVars, runningByDb, jsonFiles, pidsFile, pending,
                  failuresByDb, opc, todo, live, counters, oActive, started >>

(* --------------------------- watch mode: ids ---------------------------- *)

\* longest root that contains the file
bestRootForFile(fileAbs, rootsAbs) ==
  LET cand == { i \in 1..Len(rootsAbs) : IsPrefix(rootsAbs[i], fileAbs) } IN
  IF cand = {} THEN None
  ELSE Some(rootsAbs[CHOOSE i \in cand :
                       \A j \in cand : \/ Len(rootsAbs[j]) < Len(rootsAbs[i])
                                       \/ (Len(rootsAbs[j]) = Len(rootsAbs[i]) /\ i <= j)])

relFromRoots(fileAbs, rootsAbs) ==
  LET root == bestRootForFile(fileAbs, rootsAbs) IN
  IF ~IsSome(root) THEN << safeBaseName(fileAbs) >>
  ELSE LET rel == SubSeq(fileAbs, Len(Val(root)) + 1, Len(fileAbs))
           stripped == IF Len(rel) > 1 /\ rel[1] = safeBaseName(Val(root))
                       THEN Tail(rel) ELSE rel
       IN IF stripped = << >> THEN << safeBaseName(fileAbs) >> ELSE stripped

\* <sessionHome>/<relDir>/<basename>.context.json, as the path below sessionHome
spawnedLedgerPathForEntry(location) == relFromRoots(location, WatchRoots)

\* ExposableService.id: the path relative to the best-matching root (longest
\* prefix), the basename when no root matches
toExposableId(location) ==
  LET cand == { i \in 1..Len(WatchRoots) : IsPrefix(WatchRoots[i], location) } IN
  IF cand = {} THEN << safeBaseName(location) >>
  ELSE LET r == WatchRoots[CHOOSE i \in cand :
                    \A j \in cand : \/ Len(WatchRoots[j]) < Len(WatchRoots[i])
                                    \/ (Len(WatchRoots[j]) = Len(WatchRoots[i]) /\ i <= j)]
           rel == SubSeq(location, Len(r) + 1, Len(location))
       IN IF rel = << >> THEN << safeBaseName(location) >> ELSE rel

WatchIds == { toExposableId(f) : f \in DbPaths }

CtxPaths == { spawnedLedgerPathForEntry(f) : f \in DbPaths }

\* exposable(tabular(srcPaths)): the files that classify, in walk order
exposable == SeqOfSet(DbPathSeq, { f \in DbPaths : fs[f].exists /\ fs[f].cls })

\* discoverServices: Map id -> service, a later service replaces an earlier one
RECURSIVE discoverInto(_, _)
discoverInto(svcs, out) ==
  IF svcs = << >> THEN out
  ELSE discoverInto(Tail(svcs), [out EXCEPT ![toExposableId(Head(svcs))] = Some(Head(svcs))])

discoverServices == discoverInto(exposable, [i \in WatchIds |-> None])

\* readLedger: Map id -> state of the context file that carries the id
readLedger ==
  [ i \in WatchIds |->
      IF \E p \in CtxPaths : IsSome(ctxFiles[p]) /\ Val(ctxFiles[p]).id = i
      THEN ctxFiles[CHOOSE p \in CtxPaths : IsSome(ctxFiles[p]) /\ Val(ctxFiles[p]).id = i]
      ELSE None ]

\* a kill loop without the `!isStillDiscovered || !fileExists` test
killedWhenRecorded(discovered, ledger) ==
  { Val(ledger[i]).pid : i \in { j \in WatchIds :
       IsSome(ledger[j]) /\ isPidAlive(Val(ledger[j]).pid) } }

\* the pids the kill loop of reconcileOnce hands to killPID
killedByPass(discovered, ledger) ==
  { Val(ledger[i]).pid : i \in { j \in WatchIds :
       /\ IsSome(ledger[j])
       /\ (~IsSome(discovered[j]) \/ ~fs[Val(ledger[j]).loc].exists)
       /\ isPidAlive(Val(ledger[j]).pid) } }

\* the processes left alive by killPID on each pid of the set
killPID(pids) == alive \ pids

\* the ports of the ledger's records whose pid is in aliveNow
usedPorts(ledger, aliveNow) ==
  { Val(ledger[i]).port : i \in { j \in WatchIds :
       /\ IsSome(ledger[j])
       /\ Val(ledger[j]).port > 0
       /\ Val(ledger[j]).pid \in aliveNow } }

\* first port from desiredStart on that no alive record of the ledger uses
RECURSIVE pickNextPortStart(_, _, _)
pickNextPortStart(desiredStart, ledger, aliveNow) ==
  IF desiredStart \in usedPorts(ledger, aliveNow)
  THEN pickNextPortStart(desiredStart + 1, ledger, aliveNow)
  ELSE desiredStart

\* toSpawn of reconcileOnce, computed after the kill loop left `aliveNow`
toSpawnOf(discovered, ledger, aliveNow) ==
  { i \in WatchIds :
      /\ IsSome(discovered[i])
      /\ (~IsSome(ledger[i]) \/ Val(ledger[i]).pid \notin aliveNow) }

(* ------------------------ watch mode: scheduler ------------------------- *)

schedVars == << reconcileRunning, reconcileQueued, activePasses, passes, coalesced,
                wphase, quietPasses >>

\* opts.reconcileEveryMs > 0: the periodic timer is configured
periodicTimer == TRUE

setSched(running, queued, active, started_, piled, phase) ==
  /\ reconcileRunning' = running
  /\ reconcileQueued' = queued
  /\ activePasses' = active
  /\ passes' = started_
  /\ coalesced' = piled
  /\ wphase' = phase
  /\ quietPasses' = IF started_ > passes THEN onePassMore ELSE quietPasses

\* the body of schedule() past the abort test, called when the scheduler's
\* variables have the given values
startOrQueueUnguarded(running, queued, active, phase) ==
  /\ passes < MaxPasses
  /\ setSched(TRUE, queued, active + 1, passes + 1, 0, "kill")

startOrQueue(running, queued, active, phase) ==
  IF running
  THEN /\ coalesced < MaxCoalesced
       /\ setSched(running, TRUE, active, passes, coalesced + 1, phase)
  ELSE /\ passes < MaxPasses
       /\ setSched(TRUE, queued, active + 1, passes + 1, 0, "kill")

scheduleIgnoringAbort(running, queued, active, phase) ==
  startOrQueue(running, queued, active, phase)

schedule(running, queued, active, phase) ==
  IF aborted THEN setSched(running, queued, active, passes, coalesced, phase)
  ELSE startOrQueue(running, queued, active, phase)

\* opts.onWatchEvent is not set: emit() returns at once
NoLog == [on |-> FALSE, reason |-> "none", errors |-> {}, ends |-> 0]

\* a listener is set and has not received a reconcile_start yet
EmptyLog == [on |-> TRUE, reason |-> "none", errors |-> {}, ends |-> 0]

\* emit(opts, event): the listener, if there is one, receives the event
emit(log) == wlog' = IF wlog.on THEN log ELSE wlog

\* emit(opts, {type: "reconcile_start", reason}) of the pass that the
\* schedule() call of this step started, if it started one
reconcileStart(reason) ==
  IF passes' > passes
  THEN emit([on |-> TRUE, reason |-> reason, errors |-> {}, ends |-> 0])
  ELSE UNCHANGED wlog

\* emit(opts, {type: "error", phase}) for each phase, in a pass that goes on
emitError(phases) == emit([wlog EXCEPT !.errors = @ \cup phases])

\* reconcileOnce returning without a reconcile_end when an error was emitted
reconcileEndUnlessError(phases) ==
  emit([wlog EXCEPT !.errors = @ \cup phases,
                    !.ends = IF phases = {} THEN @ + 1 ELSE @])

\* emit(opts, {type: "reconcile_end", reason, ...}), after the error events of
\* the phases given
reconcileEnd(phases) == emit([wlog EXCEPT !.errors = @ \cup phases, !.ends = @ + 1])

runReconcile(reason) ==
  IF aborted THEN UNCHANGED << schedVars, debounceTimer, wlog >>
  ELSE IF reason = "fs"
  THEN debounceTimer' = TRUE /\ UNCHANGED << schedVars, wlog >>
  ELSE /\ schedule(reconcileRunning, reconcileQueued, activePasses, wphase)
       /\ reconcileStart(reason)
       /\ UNCHANGED debounceTimer

(* ------------------------- watch mode: actions -------------------------- *)

\* watchYardInSession up to the for-await loop: runReconcile("initial"),
\* setInterval, Deno.watchFs, the abort listener
WatchStart ==
  /\ entry = "watch"
  /\ wpc = "boot"
  /\ runReconcile("initial")
  /\ wpc' = "watching"
  /\ UNCHANGED << entry, cmdVars, lastPass, worldVars, orchVars, ctxFiles, aborted, toSpawn, wtodo, port >>

\* the for-await loop takes a watcher event: runReconcile("fs")
FsEvent(path) ==
  /\ entry = "watch"
  /\ wpc = "watching"
  /\ ~aborted
  /\ path \in notify
  /\ notify' = notify \ {path}
  /\ runReconcile("fs")
  /\ UNCHANGED << entry, cmdVars, lastPass, fs, alive, nextPid, now, worldLeft, orchVars, ctxFiles,
                  aborted, wpc, toSpawn, wtodo, port >>

\* the debounce timeout fires
DebounceFire ==
  /\ entry = "watch"
  /\ wpc # "returned"
  /\ debounceTimer
  /\ debounceTimer' = FALSE
  /\ schedule(reconcileRunning, reconcileQueued, activePasses, wphase)
  /\ reconcileStart("fs")
  /\ UNCHANGED << entry, cmdVars, lastPass, worldVars, orchVars, ctxFiles, aborted, wpc, toSpawn, wtodo, port >>

\* the setInterval callback: runReconcile("timer")
TimerTick ==
  /\ entry = "watch"
  /\ periodicTimer
  /\ wpc = "watching"
  /\ ~aborted
  /\ runReconcile("timer")
  /\ UNCHANGED << entry, cmdVars, lastPass, worldVars, orchVars, ctxFiles, aborted, wpc, toSpawn, wtodo, port >>

\* opts.signal aborts; the abort handler closes the watcher
Abort ==
  /\ entry = "watch"
  /\ wpc # "returned"
  /\ ~aborted
  /\ aborted' = TRUE
  /\ UNCHANGED << entry, cmdVars, lastPass, quietPasses, worldVars, orchVars, ctxFiles, reconcileRunning,
                  reconcileQueued, debounceTimer, wpc, wphase, toSpawn, wtodo,
                  activePasses, passes, coalesced, port, wlog >>

\* the closed watcher ends the for-await loop: watch_end, the finally block,
\* watchYardInSession returns
WatchReturn ==
  /\ entry = "watch"
  /\ wpc = "watching"
  /\ aborted
  /\ debounceTimer' = FALSE
  /\ wpc' = "returned"
  /\ UNCHANGED << entry, cmdVars, lastPass, quietPasses, worldVars, orchVars, ctxFiles, aborted, reconcileRunning,
                  reconcileQueued, wphase, toSpawn, wtodo, activePasses, passes,
                  coalesced, port, wlog >>

\* reconcileOnce: discover, read the ledger, the kill loop, toSpawn
\* what the two reads of a pass can do: both return, discoverServices throws,
\* readLedger throws
ReconcileOutcomes == { "ok", "discover_error", "ledger_error" }

\* `ledger = new Map()` of the catch block around readLedger
emptyLedger == [i \in WatchIds |-> None]

ReconcileKill ==
  /\ entry = "watch"
  /\ wphase = "kill"
  /\ \E outcome \in ReconcileOutcomes :
       /\ IF outcome = "ok" THEN UNCHANGED << worldLeft, quietPasses >>
          ELSE worldLeft > 0 /\ worldLeft' = worldLeft - 1 /\ quietPasses' = 0
       /\ IF outcome = "discover_error"
          THEN /\ reconcileEnd({"discover"})
               /\ wphase' = "end"
               /\ wtodo' = << >>
               /\ port' = PortStart
               /\ toSpawn' = {}
               /\ UNCHANGED alive
          ELSE LET discovered == discoverServices
                   ledger == IF outcome = "ledger_error" THEN emptyLedger ELSE readLedger
                   left == killPID(killedByPass(discovered, ledger))
                   ids == toSpawnOf(discovered, ledger, left)
                   phases == IF outcome = "ledger_error" THEN {"read_ledger"} ELSE {}
               IN /\ alive' = left
                  /\ toSpawn' = ids
                  /\ IF ids = {}
                     THEN /\ reconcileEnd(phases)
                          /\ wphase' = "end" /\ wtodo' = << >> /\ port' = PortStart
                     ELSE /\ emitError(phases)
                          /\ wphase' = "spawn"
                          /\ wtodo' = exposable
                          /\ port' = pickNextPortStart(PortStart, readLedger, left)
  /\ UNCHANGED << entry, cmdVars, lastPass, fs, nextPid, now, notify, orchVars, ctxFiles,
                  aborted, reconcileRunning, reconcileQueued, debounceTimer, wpc,
                  activePasses, passes, coalesced >>

\* what one turn of the spawn() generator can meet for a service it is to
\* spawn: expose or service.spawn throws (caught, the service is recorded as
\* errored); spawnStatePath or ensureParentDir throws (outside every try
\* block); the child runs and the context file is written; the child runs and
\* the write of the context file throws (caught)
WatchSpawnOutcomes == { "spawn_error", "path_error", "alive", "write_error" }

\* what a reader finds in a context file while Deno.writeTextFile is writing
\* it: no complete JSON document, so no id, no pid, no port
PartialContext == [id |-> << >>, pid |-> 0, loc |-> << >>, port |-> 0]

\* after a turn of the generator: spawnMissing goes on, or the generator is
\* done, spawnMissing returns and reconcileOnce emits reconcile_end
afterTurn(next) == IF next = "end" THEN reconcileEnd({}) ELSE UNCHANGED wlog

\* one turn of the spawn() generator driven by spawnMissing, up to the point
\* where Deno.writeTextFile has opened (and truncated) the context file
SpawnStep ==
  /\ entry = "watch"
  /\ wphase = "spawn"
  /\ wtodo # << >>
  /\ LET svc == Head(wtodo)
         id == toExposableId(svc)
         next == IF Tail(wtodo) = << >> THEN "end" ELSE "spawn"
     IN IF id \notin toSpawn
        THEN /\ wtodo' = Tail(wtodo)
             /\ wphase' = next
             /\ port' = IF next = "end" THEN PortStart ELSE port
             /\ afterTurn(next)
             /\ UNCHANGED << alive, nextPid, worldLeft, ctxFiles >>
        ELSE \E outcome \in WatchSpawnOutcomes :
          CASE outcome = "spawn_error" ->
                 /\ worldLeft > 0
                 /\ worldLeft' = worldLeft - 1
                 /\ wtodo' = Tail(wtodo)
                 /\ wphase' = next
                 /\ port' = IF next = "end" THEN PortStart ELSE port
                 /\ afterTurn(next)
                 /\ UNCHANGED << alive, nextPid, ctxFiles >>
            [] outcome = "path_error" ->
                 /\ worldLeft > 0
                 /\ worldLeft' = worldLeft - 1
                 /\ wtodo' = << >>
                 /\ wphase' = "end"
                 /\ port' = PortStart
                 /\ reconcileEnd({"spawn"})
                 /\ UNCHANGED << alive, nextPid, ctxFiles >>
            [] outcome = "alive" ->
                 /\ nextPid <= MaxPid
                 /\ nextPid' = nextPid + 1
                 /\ alive' = alive \cup {nextPid}
                 /\ ctxFiles' = [ctxFiles EXCEPT ![spawnedLedgerPathForEntry(svc)] =
                                   Some(PartialContext)]
                 /\ wphase' = "write"
                 /\ UNCHANGED << worldLeft, wtodo, port, wlog >>
            [] outcome = "write_error" ->
                 /\ worldLeft > 0
                 /\ worldLeft' = worldLeft - 1
                 /\ nextPid <= MaxPid
                 /\ nextPid' = nextPid + 1
                 /\ alive' = alive \cup {nextPid}
                 /\ wtodo' = Tail(wtodo)
                 /\ wphase' = next
                 /\ port' = IF next = "end" THEN PortStart ELSE port + 1
                 /\ afterTurn(next)
                 /\ UNCHANGED ctxFiles
  /\ UNCHANGED << entry, cmdVars, lastPass, quietPasses, fs, now, notify, orchVars, aborted, reconcileRunning,
                  reconcileQueued, debounceTimer, wpc, toSpawn, activePasses,
                  passes, coalesced >>

\* Deno.writeTextFile(ctxPath, ...) completes, the generator yields and
\* advances its port
ContextWritten ==
  /\ entry = "watch"
  /\ wphase = "write"
  /\ LET svc == Head(wtodo)
         next == IF Tail(wtodo) = << >> THEN "end" ELSE "spawn"
         ctx == [id |-> toExposableId(svc), pid |-> nextPid - 1, loc |-> svc,
                 port |-> port]
     IN /\ ctxFiles' = [ctxFiles EXCEPT ![spawnedLedgerPathForEntry(svc)] = Some(ctx)]
        /\ wtodo' = Tail(wtodo)
        /\ wphase' = next
        /\ port' = IF next = "end" THEN PortStart ELSE port + 1
        /\ afterTurn(next)
  /\ UNCHANGED << entry, cmdVars, lastPass, quietPasses, worldVars, orchVars, aborted, reconcileRunning,
                  reconcileQueued, debounceTimer, wpc, toSpawn, activePasses,
                  passes, coalesced >>

PassFinishDropping ==
  /\ entry = "watch"
  /\ wphase = "end"
  /\ setSched(FALSE, FALSE, activePasses - 1, passes, coalesced, "idle")
  /\ UNCHANGED << entry, cmdVars, lastPass, worldVars, orchVars, ctxFiles, aborted, debounceTimer, wpc,
                  toSpawn, wtodo, port, wlog >>

\* reconcileOnce returns; the finally block of the pass promise
PassFinish ==
  /\ entry = "watch"
  /\ wphase = "end"
  /\ IF reconcileQueued /\ ~aborted
     THEN /\ schedule(FALSE, FALSE, activePasses - 1, "idle")
          /\ reconcileStart(wlog.reason)
     ELSE /\ setSched(FALSE, reconcileQueued, activePasses - 1, passes, coalesced, "idle")
          /\ UNCHANGED wlog
  /\ UNCHANGED << entry, cmdVars, lastPass, worldVars, orchVars, ctxFiles, aborted, debounceTimer, wpc,
                  toSpawn, wtodo, port >>

(* ------------------------------ the world ------------------------------- *)

\* a filesystem watcher of the supervisor is listening
watcherListening ==
  \/ entry = "orch" /\ started /\ ~closed /\ opc # "crashed"
  \/ entry = "watch" /\ wpc = "watching" /\ ~aborted

fsChange(f) ==
  /\ worldLeft > 0
  /\ worldLeft' = worldLeft - 1
  /\ notify' = IF watcherListening THEN notify \cup {f} ELSE notify
  /\ quietPasses' = 0

CreateFile(f, c) ==
  /\ ~fs[f].exists
  /\ fs' = [fs EXCEPT ![f] = [exists |-> TRUE, ver |-> 0, cls |-> c]]
  /\ fsChange(f)
  /\ UNCHANGED watchVars
  /\ UNCHANGED << entry, cmdVars, lastPass, alive, nextPid, now, orchVars >>

RemoveFile(f) ==
  /\ fs[f].exists
  /\ fs' = [fs EXCEPT ![f] = AbsentFile]
  /\ fsChange(f)
  /\ UNCHANGED watchVars
  /\ UNCHANGED << entry, cmdVars, lastPass, alive, nextPid, now, orchVars >>

\* the content changes: new size/mtime, the tables that classify it may change
ModifyFile(f, c) ==
  /\ fs[f].exists
  /\ fs' = [fs EXCEPT ![f] = [exists |-> TRUE, ver |-> (fs[f].ver + 1) % (MaxVer + 1),
                                cls |-> c]]
  /\ fsChange(f)
  /\ UNCHANGED watchVars
  /\ UNCHANGED << entry, cmdVars, lastPass, alive, nextPid, now, orchVars >>

ChildDies(pid) ==
  /\ pid \in alive
  /\ worldLeft > 0
  /\ worldLeft' = worldLeft - 1
  /\ alive' = alive \ {pid}
  /\ quietPasses' = 0
  /\ UNCHANGED watchVars
  /\ UNCHANGED << entry, cmdVars, lastPass, fs, nextPid, now, notify, orchVars >>

World ==
  \/ \E f \in DbPaths, c \in BOOLEAN : CreateFile(f, c)
  \/ \E f \in DbPaths : RemoveFile(f)
  \/ \E f \in DbPaths, c \in BOOLEAN : ModifyFile(f, c)
  \/ \E pid \in Pids : ChildDies(pid)

(* ---------------------------- specification ----------------------------- *)

\* the in-memory state of a supervisor process that has just been started with
\* the given events received by its listener
ProcessStartWith(log) ==
  /\ now = 0
  /\ notify = {}
  /\ runningByDb = [f \in DbPaths |-> None]
  /\ pending = {}
  /\ failuresByDb = [f \in DbPaths |-> None]
  /\ closed = FALSE
  /\ opc = "boot"
  /\ todo = << >>
  /\ live = {}
  /\ counters = ZeroCounters
  /\ oActive = 0
  /\ started = FALSE
  /\ aborted = FALSE
  /\ reconcileRunning = FALSE
  /\ reconcileQueued = FALSE
  /\ debounceTimer = FALSE
  /\ wpc = "boot"
  /\ wphase = "idle"
  /\ toSpawn = {}
  /\ wtodo = << >>
  /\ activePasses = 0
  /\ passes = 0
  /\ coalesced = 0
  /\ port = PortStart
  /\ wlog = log
  /\ quietPasses = 0
  /\ lastPass = "none"

\* a supervisor process that has just been started, no onWatchEvent listener
ProcessStart == ProcessStartWith(NoLog)

\* a first start: no child runs, the session directory is empty
Init ==
  /\ entry \in { "orch", "watch" }
  /\ fs \in [DbPaths -> InitialFiles]
  /\ alive = {}
  /\ nextPid = 1
  /\ jsonFiles = [p \in JsonPaths |-> None]
  /\ pidsFile = None
  /\ ctxFiles = [p \in CtxPaths |-> None]
  /\ worldLeft = MaxWorld
  /\ ProcessStart
  /\ CmdIdle
  /\ DefaultOptions

Orch ==
  \/ StartOrchestrator
  \/ InitialReconcile
  \/ LoopWake
  \/ EnsureStep
  \/ StopStep
  \/ CleanupStep
  \/ DeltaStep
  \/ \E path \in DbPaths : Enqueue(path)
  \/ Close

Watch ==
  \/ WatchStart
  \/ \E path \in DbPaths : FsEvent(path)
  \/ DebounceFire
  \/ TimerTick
  \/ Abort
  \/ WatchReturn
  \/ ReconcileKill
  \/ SpawnStep
  \/ ContextWritten
  \/ PassFinish

Next == Orch \/ Watch \/ World

Spec == Init /\ [][Next]_vars

(* ---------------- watch mode with an onWatchEvent listener --------------- *)

\* a first start of watchYardInSession with opts.onWatchEvent set, every file
\* under the roots being absent or a database that classifies
InitWatchEvents ==
  /\ entry = "watch"
  /\ fs \in [DbPaths -> { AbsentFile, [exists |-> TRUE, ver |-> 0, cls |-> TRUE] }]
  /\ alive = {}
  /\ nextPid = 1
  /\ jsonFiles = [p \in JsonPaths |-> None]
  /\ pidsFile = None
  /\ ctxFiles = [p \in CtxPaths |-> None]
  /\ worldLeft = MaxWorld
  /\ ProcessStartWith(EmptyLog)
  /\ CmdIdle
  /\ DefaultOptions

NextWatchEvents == Watch \/ World

SpecWatchEvents == InitWatchEvents /\ [][NextWatchEvents]_vars

(* ------------------------------- restarts ------------------------------- *)
\* The orchestrator is started while the child that an earlier supervisor
\* spawned for one database file is still running (children are detached and
\* outlive the supervisor).

\* the token of the supervisor that wrote the earlier record
foreignToken == "tok-other"

\* where the new supervisor finds itself:
\*   "stamped": bin/yard.ts gave it a new <spawnedBase>/<sessionStamp()> directory;
\*   "own":     spawnedDir is the earlier directory and holds this owner token;
\*   "foreign": spawnedDir is the earlier directory, written under another token
SessionHomes == { "stamped", "own", "foreign" }

\* the earlier supervisor wrote its files before this one started
EarlierMs == 0 - 1

\* the record the earlier supervisor wrote for its child, pid 1
earlierRecord(dbAbsPath, token) ==
  [ id |-> computeInstanceId(WatchRoots, dbAbsPath, readDbYardConfig(dbAbsPath)),
    dbPath |-> dbAbsPath,
    dbBasename |-> safeBaseName(dbAbsPath),
    pid |-> 1,
    fileVer |-> 0,
    lastSeenAtMs |-> 0,
    owner |-> token ]

\* the state an earlier supervisor left behind, found by a new one
EarlierSession ==
  /\ entry = "orch"
  /\ alive = {1}
  /\ nextPid = 2
  /\ ctxFiles = [p \in CtxPaths |-> None]
  /\ worldLeft = MaxWorld
  /\ ProcessStart
  /\ CmdIdle
  /\ \E d \in DbPaths, home \in SessionHomes :
       LET rec == earlierRecord(d, IF home = "own" THEN ownerToken ELSE foreignToken)
           json == spawnedJsonPath(rec.dbBasename, rec.id)
       IN
       /\ fs \in { f \in [DbPaths -> InitialFiles] :
                     /\ \A e \in DbPaths \ {d} : f[e] = AbsentFile }
       /\ jsonFiles = [ p \in JsonPaths |->
                          IF home # "stamped" /\ p = json THEN Some(rec) ELSE None ]
       /\ pidsFile = IF home = "stamped" THEN None
                     ELSE Some([pids |-> << 1 >>, mtime |-> EarlierMs])

InitRestart == EarlierSession /\ DefaultOptions

NextRestart == Orch \/ World

SpecRestart == InitRestart /\ [][NextRestart]_vars

\* the same restart with --adopt-foreign-state
InitAdopt == EarlierSession /\ adoptForeign = TRUE

NextAdopt == Orch \/ World

SpecAdopt == InitAdopt /\ [][NextAdopt]_vars

(* -------------------------- the periodic loop --------------------------- *)
\* The orchestrator watches one database, /a/x, which the outside world keeps
\* changing: one change more than in the other runs, so that a change can
\* arrive behind a delta pass.

LoopChanges == MaxWorld + 1

InitLoop ==
  /\ entry = "orch"
  /\ fs = [ f \in DbPaths |->
             IF f = << "a", "x" >> THEN [exists |-> TRUE, ver |-> 0, cls |-> TRUE]
             ELSE AbsentFile ]
  /\ alive = {}
  /\ nextPid = 1
  /\ jsonFiles = [p \in JsonPaths |-> None]
  /\ pidsFile = None
  /\ ctxFiles = [p \in CtxPaths |-> None]
  /\ worldLeft = LoopChanges
  /\ ProcessStart
  /\ CmdIdle
  /\ DefaultOptions

NextLoop == Orch \/ World

SpecLoop == InitLoop /\ [][NextLoop]_vars

(* -------------------------------- killPID -------------------------------- *)
\* killPID(pid) of the spawn module, followed step by step on one pid (stopByPid
\* of lib/governance.ts has the same body).  The world is the process itself,
\* which may exit at any time, and the other members of the process group it
\* leads when it was started with setsid.

\* `for (let i = 0; i < 20; i++)`
KillPolls == 20

\* Deno.build.os
buildOs == "linux"

\* the pid handed to killPID
KillTarget == 1

\* Deno.kill(-pid, sig) does not throw: the group led by pid has a member
groupSignalled == kp.leader /\ (KillTarget \in alive \/ kp.others)

\* Deno.kill(pid, sig) does not throw
pidSignalled == KillTarget \in alive

termTargetPidFirst(groupOk, pidOk) ==
  IF pidOk THEN "pid"
  ELSE IF buildOs # "windows" /\ groupOk THEN "group"
  ELSE "none"

\* who receives SIGTERM: triedGroup, else killSingle("SIGTERM")
termTarget(groupOk, pidOk) ==
  IF buildOs # "windows" /\ groupOk THEN "group"
  ELSE IF pidOk THEN "pid"
  ELSE "none"

afterTermAlwaysPoll(target) == "poll"

\* `if (!triedGroup) { if (!killSingle("SIGTERM")) return; }`
afterTerm(target) == IF target = "none" THEN "done" ELSE "poll"

\* killPID is called: the synchronous part up to the polling loop
KillCall ==
  /\ entry = "kill"
  /\ kp.pc \in { "idle", "done" }
  /\ kp.calls < MaxCalls
  /\ LET target == termTarget(groupSignalled, pidSignalled) IN
       kp' = [kp EXCEPT !.pc = afterTerm(target),
                        !.i = 0,
                        !.termed = (target # "none"),
                        !.sent = IF target = "none" THEN @
                                 ELSE Append(@, << target, "SIGTERM" >>),
                        !.calls = @ + 1]
  /\ UNCHANGED << entry, dr, adoptForeign, utilVars, sessions, mw, worldVars, orchVars, watchVars, quietPasses, lastPass >>

\* `if (!isPidAlive(pid)) return;`
KillPoll ==
  /\ entry = "kill"
  /\ kp.pc = "poll"
  /\ kp' = [kp EXCEPT !.pc = IF ~isPidAlive(KillTarget) THEN "done" ELSE "sleep"]
  /\ UNCHANGED << entry, dr, adoptForeign, utilVars, sessions, mw, worldVars, orchVars, watchVars, quietPasses, lastPass >>

\* the 100 ms timeout of the loop ends, i++
KillWake ==
  /\ entry = "kill"
  /\ kp.pc = "sleep"
  /\ kp' = [kp EXCEPT !.i = @ + 1,
                      !.pc = IF kp.i + 1 < KillPolls THEN "poll" ELSE "escalate"]
  /\ UNCHANGED << entry, dr, adoptForeign, utilVars, sessions, mw, worldVars, orchVars, watchVars, quietPasses, lastPass >>

\* SIGKILL to the group, else to the pid; the processes it reaches are gone
KillEscalate ==
  /\ entry = "kill"
  /\ kp.pc = "escalate"
  /\ IF buildOs # "windows" /\ groupSignalled
     THEN /\ kp' = [kp EXCEPT !.pc = "done", !.others = FALSE,
                              !.sent = Append(@, << "group", "SIGKILL" >>)]
          /\ alive' = alive \ {KillTarget}
     ELSE IF pidSignalled
     THEN /\ kp' = [kp EXCEPT !.pc = "done",
                              !.sent = Append(@, << "pid", "SIGKILL" >>)]
          /\ alive' = alive \ {KillTarget}
     ELSE /\ kp' = [kp EXCEPT !.pc = "done"]
          /\ UNCHANGED alive
  /\ UNCHANGED << entry, dr, adoptForeign, utilVars, sessions, mw, fs, nextPid, now, worldLeft, notify, orchVars, watchVars,
                  quietPasses, lastPass >>

\* the process exits (on SIGTERM or by itself)
ProcessExits ==
  /\ entry = "kill"
  /\ KillTarget \in alive
  /\ alive' = alive \ {KillTarget}
  /\ UNCHANGED << entry, cmdVars, fs, nextPid, now, worldLeft, notify, orchVars, watchVars,
                  quietPasses, lastPass >>

\* the other members of the process group exit
GroupMembersExit ==
  /\ entry = "kill"
  /\ kp.others
  /\ kp' = [kp EXCEPT !.others = FALSE]
  /\ UNCHANGED << entry, dr, adoptForeign, utilVars, sessions, mw, worldVars, orchVars, watchVars, quietPasses, lastPass >>

InitKill ==
  /\ entry = "kill"
  /\ fs = [f \in DbPaths |-> AbsentFile]
  /\ alive \in { {}, {KillTarget} }
  /\ nextPid = KillTarget + 1
  /\ jsonFiles = [p \in JsonPaths |-> None]
  /\ pidsFile = None
  /\ ctxFiles = [p \in CtxPaths |-> None]
  /\ worldLeft = 0
  /\ ProcessStart
  /\ kp \in { [NoKill EXCEPT !.leader = l, !.others = o] :
                l \in BOOLEAN, o \in BOOLEAN }
  /\ kp.others => kp.leader
  /\ dr = NoReconcile
  /\ OthersIdle
  /\ DefaultOptions

NextKill ==
  \/ KillCall
  \/ KillPoll
  \/ KillWake
  \/ KillEscalate
  \/ ProcessExits
  \/ GroupMembersExit

SpecKill == InitKill /\ [][NextKill]_vars

(* ------------------------- discrepancy reconcile ------------------------- *)
\* reconcile(home) of lib/materialize.ts compares the context files under
\* home with the tagged processes of the machine.  Its inputs are drawn at
\* the start: the pid each context file carries, which pids are alive, and
\* the DB_YARD_CONTEXT_PATH tag of the alive ones.

\* pids that context files and processes can carry
MaxRecPid == 2

RecPids == 1..MaxRecPid

\* a context path that is not under home
Elsewhere == << "elsewhere" >>

TagPaths == CtxPaths \cup { Elsewhere }

\* spawnedLedgerStates(base): the context files in walk order
CtxPathSeq ==
  CHOOSE q \in [1..Cardinality(CtxPaths) -> CtxPaths] :
    \A p \in CtxPaths : \E i \in 1..Cardinality(CtxPaths) : q[i] = p

\* ledgerByContextPath.get(path): the path of the encounter, if any
ledgerByContextPath(path) ==
  IF path \in CtxPaths /\ dr.ledger[path] # 0 THEN Some(path) ELSE None

\* ledgerByPid.get(pid): the encounter that was set last under the pid
ledgerByPid(pid) ==
  LET idx == { i \in 1..Len(CtxPathSeq) : dr.ledger[CtxPathSeq[i]] = pid } IN
  IF idx = {} THEN None
  ELSE Some(CtxPathSeq[CHOOSE i \in idx : \A j \in idx : j <= i])

\* `ledgerByCtx ?? ledgerByPid.get(pid)` for the tagged process pid
ledgerOf(pid) ==
  LET ledgerByCtx == ledgerByContextPath(Val(dr.tags[pid])) IN
  IF IsSome(ledgerByCtx) THEN ledgerByCtx ELSE ledgerByPid(pid)

\* taggedProcesses(): the alive pids that carry the tag, in /proc order
RECURSIVE taggedProcesses(_)
taggedProcesses(pid) ==
  IF pid > MaxRecPid THEN << >>
  ELSE IF isPidAlive(pid) /\ IsSome(dr.tags[pid])
  THEN << pid >> \o taggedProcesses(pid + 1)
  ELSE taggedProcesses(pid + 1)

\* step 2 of reconcile: the walk over the tagged processes; acc is
\* [seen (seenLedgerPids), items, n (processWithoutLedger)]
RECURSIVE walkProcesses(_, _)
walkProcesses(tps, acc) ==
  IF tps = << >> THEN acc
  ELSE LET pid == Head(tps)
           ledger == ledgerOf(pid)
       IN IF ~IsSome(ledger)
          THEN walkProcesses(Tail(tps),
                 [acc EXCEPT !.n = @ + 1,
                             !.items = Append(@, [kind |-> "process_without_ledger",
                                                  pid |-> pid,
                                                  path |-> Val(dr.tags[pid])])])
          ELSE walkProcesses(Tail(tps),
                 [acc EXCEPT !.seen = @ \cup { dr.ledger[Val(ledger)] }])

\* step 3 of reconcile: the walk over ledgerByPid.entries()
RECURSIVE walkLedger(_, _, _)
walkLedger(pid, seen, acc) ==
  IF pid > MaxRecPid THEN acc
  ELSE IF ~IsSome(ledgerByPid(pid)) \/ (isPidAlive(pid) /\ pid \in seen)
  THEN walkLedger(pid + 1, seen, acc)
  ELSE walkLedger(pid + 1, seen,
         [acc EXCEPT !.n = @ + 1,
                     !.items = Append(@, [kind |-> "ledger_without_process",
                                          pid |-> pid,
                                          path |-> Val(ledgerByPid(pid))])])

\* reconcile(home) runs to its return
DiscrepancyReconcile ==
  /\ entry = "reconcile"
  /\ dr.pc = "input"
  /\ LET procs == walkProcesses(taggedProcesses(1), [seen |-> {}, items |-> << >>, n |-> 0])
         ledg == walkLedger(1, procs.seen, [items |-> procs.items, n |-> 0])
     IN dr' = [dr EXCEPT !.pc = "done",
                         !.items = ledg.items,
                         !.summary = [processWithoutLedger |-> procs.n,
                                      ledgerWithoutProcess |-> ledg.n,
                                      mismatched |-> 0]]
  /\ UNCHANGED << entry, kp, adoptForeign, utilVars, sessions, mw, worldVars, orchVars, watchVars, quietPasses, lastPass >>

\* what a command that reads the ledger under home can find: context files
\* with their pids, alive pids, tagged processes among the alive ones
LedgerAndProcesses ==
  /\ fs = [f \in DbPaths |-> AbsentFile]
  /\ alive \in SUBSET RecPids
  /\ nextPid = MaxRecPid + 1
  /\ jsonFiles = [p \in JsonPaths |-> None]
  /\ pidsFile = None
  /\ ctxFiles = [p \in CtxPaths |-> None]
  /\ worldLeft = 0
  /\ ProcessStart
  /\ kp = NoKill
  /\ OthersIdle
  /\ DefaultOptions
  /\ \E ledger \in [CtxPaths -> 0..MaxRecPid],
        tags \in [RecPids -> { None } \cup { Some(p) : p \in TagPaths }] :
       /\ \A pid \in RecPids : IsSome(tags[pid]) => pid \in alive
       /\ dr = [NoReconcile EXCEPT !.pc = "input", !.ledger = ledger, !.tags = tags]

InitReconcile ==
  /\ entry = "reconcile"
  /\ LedgerAndProcesses

NextReconcile == DiscrepancyReconcile

SpecReconcile == InitReconcile /\ [][NextReconcile]_vars

(* ---------------------------- the kill command --------------------------- *)
\* `yard.ts kill` for a spawn-state home.  The repository holds two bodies of
\* the command: killSpawnedStates(home) of lib/materialize.ts and
\* killSpawnedProcesses() of lib/spawn.ts.

\* the pids killSpawnedStates(home) hands to killPID: `if (pidAlive)`
pidsOfLiveStates ==
  { dr.ledger[p] : p \in { q \in CtxPaths :
       dr.ledger[q] # 0 /\ isPidAlive(dr.ledger[q]) } }

\* the pids killSpawnedProcesses() hands to killPID: every tagged process
pidsOfTaggedProcesses ==
  { taggedProcesses(1)[i] : i \in 1..Len(taggedProcesses(1)) }

\* killSpawnedStates(spawnStateHome) runs to its end
KillSpawnedStates ==
  /\ entry = "kill-command"
  /\ dr.pc = "input"
  /\ dr' = [dr EXCEPT !.pc = "killed", !.signalled = pidsOfLiveStates]
  /\ alive' = killPID(pidsOfLiveStates)
  /\ UNCHANGED << entry, kp, adoptForeign, utilVars, sessions, mw, fs, nextPid, now, worldLeft, notify, orchVars, watchVars,
                  quietPasses, lastPass >>

\* killSpawnedProcesses() runs to its end
KillSpawnedProcesses ==
  /\ entry = "kill-command"
  /\ dr.pc = "input"
  /\ dr' = [dr EXCEPT !.pc = "killed", !.signalled = pidsOfTaggedProcesses]
  /\ alive' = killPID(pidsOfTaggedProcesses)
  /\ UNCHANGED << entry, kp, adoptForeign, utilVars, sessions, mw, fs, nextPid, now, worldLeft, notify, orchVars, watchVars,
                  quietPasses, lastPass >>

InitKillCommand ==
  /\ entry = "kill-command"
  /\ LedgerAndProcesses

NextKillCommand == KillSpawnedStates \/ KillSpawnedProcesses

SpecKillCommand == InitKillCommand /\ [][NextKillCommand]_vars

(* --------------------------- session directories ------------------------ *)
\* Every entry point creates its session directory under the ledger root as
\* join(home, sessionStamp()) followed by ensureDir, which succeeds when the
\* directory exists already.

\* the local time of `new Date()` advances by a quarter of a second or by a
\* whole second
ClockSteps == { 250, 1000 }

\* sessionStamp(d): `${yyyy}-${mm}-${dd}-${hh}-${mi}-${ss}` of the date d
\* (milliseconds); the first component stands for yyyy-mm-dd-hh
sessionStamp(d) ==
  LET secs == d \div 1000
  IN << secs \div 3600, (secs \div 60) % 60, secs % 60 >>

\* join(home, sessionName)
sessionHomeOf(sessionName) == << "spawned" >> \o sessionName

\* createSpawnSessionHome(spawnedLedgerHome)
createSpawnSessionHome ==
  [sessionHome |-> sessionHomeOf(sessionStamp(now)), sessionName |-> sessionStamp(now)]

\* watchYardInSession, materialize and materializeWatch: a session starts
CreateSpawnSessionHome ==
  /\ entry = "sessions"
  /\ Len(sessions) < MaxSessions
  /\ sessions' = Append(sessions, [by |-> "createSpawnSessionHome",
                                   sessionHome |-> createSpawnSessionHome.sessionHome])
  /\ UNCHANGED << entry, kp, dr, adoptForeign, utilVars, mw, worldVars, orchVars, watchVars,
                  quietPasses, lastPass >>

\* bin/yard.ts: `${spawnedBase}/${sessionStamp()}`, ensureDir(sessionDir)
YardSessionDir ==
  /\ entry = "sessions"
  /\ Len(sessions) < MaxSessions
  /\ sessions' = Append(sessions, [by |-> "yard",
                                   sessionHome |-> sessionHomeOf(sessionStamp(now))])
  /\ UNCHANGED << entry, kp, dr, adoptForeign, utilVars, mw, worldVars, orchVars, watchVars,
                  quietPasses, lastPass >>

ClockTick(d) ==
  /\ entry = "sessions"
  /\ now + d <= MaxNow
  /\ now' = now + d
  /\ UNCHANGED << entry, cmdVars, fs, alive, nextPid, worldLeft, notify, orchVars,
                  watchVars, quietPasses, lastPass >>

InitSessions ==
  /\ entry = "sessions"
  /\ fs = [f \in DbPaths |-> AbsentFile]
  /\ alive = {}
  /\ nextPid = 1
  /\ jsonFiles = [p \in JsonPaths |-> None]
  /\ pidsFile = None
  /\ ctxFiles = [p \in CtxPaths |-> None]
  /\ worldLeft = 0
  /\ ProcessStart
  /\ CmdIdle
  /\ DefaultOptions

NextSessions ==
  \/ CreateSpawnSessionHome
  \/ YardSessionDir
  \/ \E d \in ClockSteps : ClockTick(d)

SpecSessions == InitSessions /\ [][NextSessions]_vars

(* ---------------------------- materializeWatch --------------------------- *)
\* materializeWatch of lib/materialize.ts: the initial materializeOnce, then
\* the `for await (const ev of watcher)` loop with its debounce timer.  The
\* consumer of the generator takes every yielded result at once; the watcher
\* is never closed.

\* buildRunningProvenanceIndex: the files that a live tagged process serves
runningProvenance(aliveNow, tagged) == { t[2] : t \in { u \in tagged : u[1] \in aliveNow } }

\* the spawn() generator run by materializeOnce with smartSpawn: every
\* exposable service whose file no live tagged process serves gets a child
\* and a context file
RECURSIVE spawnServices(_, _, _, _)
spawnServices(svcs, st, running, nextPort) ==
  IF svcs = << >> THEN st
  ELSE LET svc == Head(svcs) IN
       IF svc \in running \/ st.nextPid > MaxPid
       THEN spawnServices(Tail(svcs), st, running, nextPort)
       ELSE spawnServices(Tail(svcs),
              [alive |-> st.alive \cup { st.nextPid },
               nextPid |-> st.nextPid + 1,
               tagged |-> st.tagged \cup { << st.nextPid, svc >> },
               ctxFiles |-> [st.ctxFiles EXCEPT ![spawnedLedgerPathForEntry(svc)] =
                               Some([id |-> toExposableId(svc), pid |-> st.nextPid,
                                     loc |-> svc, port |-> nextPort])]],
              running, nextPort + 1)

\* materializeOnce(src, { smartSpawn: true }, session) from the state st
materializeOnce(st) ==
  spawnServices(exposable, st, runningProvenance(st.alive, st.tagged), PortStart)

\* killByRemovedPath for every removed path: the processes left alive
killByRemovedPaths(removed, tagged) ==
  IF buildOs = "linux"
  THEN killPID({ t[1] : t \in { u \in tagged : u[2] \in removed } })
  ELSE alive

\* schedule() without the setTimeout: the timer handle is left undefined
scheduleDebounceUnarmed == [pending |-> TRUE, timer |-> FALSE]

\* schedule(): `pending = true`, the old timeout is cleared and a new one is
\* armed; `timer` is TRUE when it holds a timeout handle
scheduleDebounce == [pending |-> TRUE, timer |-> TRUE]

\* the setup and the initial run, whose result is yielded
MaterializeWatchStart ==
  /\ entry = "materialize-watch"
  /\ mw.pc = "boot"
  /\ sessions' = Append(sessions, [by |-> "materializeWatch",
                                   sessionHome |-> createSpawnSessionHome.sessionHome])
  /\ LET res == materializeOnce([alive |-> alive, nextPid |-> nextPid,
                                 tagged |-> mw.tagged, ctxFiles |-> ctxFiles])
     IN /\ alive' = res.alive
        /\ nextPid' = res.nextPid
        /\ ctxFiles' = res.ctxFiles
        /\ mw' = [mw EXCEPT !.pc = "watching", !.tagged = res.tagged,
                            !.runs = 1, !.yielded = 1]
  /\ UNCHANGED << entry, kp, dr, adoptForeign, utilVars, fs, now, worldLeft, notify, orchVars,
                  aborted, reconcileRunning, reconcileQueued, debounceTimer, wpc, wphase,
                  toSpawn, wtodo, activePasses, passes, coalesced, port, wlog,
                  quietPasses, lastPass >>

\* the world changes a file under the roots and Deno.watchFs queues the event
WatcherEvent(f, kind, c) ==
  /\ entry = "materialize-watch"
  /\ mw.pc = "watching"
  /\ worldLeft > 0
  /\ worldLeft' = worldLeft - 1
  /\ CASE kind = "create" ->
            /\ ~fs[f].exists
            /\ fs' = [fs EXCEPT ![f] = [exists |-> TRUE, ver |-> 0, cls |-> c]]
       [] kind = "modify" ->
            /\ fs[f].exists
            /\ fs' = [fs EXCEPT ![f] = [exists |-> TRUE,
                                        ver |-> (fs[f].ver + 1) % (MaxVer + 1), cls |-> c]]
       [] kind = "remove" ->
            /\ fs[f].exists
            /\ c = FALSE
            /\ fs' = [fs EXCEPT ![f] = AbsentFile]
  /\ mw' = [mw EXCEPT !.queue = Append(mw.queue, [path |-> f, kind |-> kind])]
  /\ UNCHANGED << entry, kp, dr, adoptForeign, utilVars, sessions, alive, nextPid, now, notify,
                  orchVars, watchVars, quietPasses, lastPass >>

\* one turn of `for await (const ev of watcher)`
WatchLoopTurn ==
  /\ entry = "materialize-watch"
  /\ mw.pc = "watching"
  /\ mw.queue # << >>
  /\ LET ev == Head(mw.queue)
         touched == mw.touched \cup { ev.path }
         removed == IF ev.kind = "remove" THEN mw.removed \cup { ev.path } ELSE mw.removed
         sched == scheduleDebounce
     IN IF sched.timer
        THEN \* `if (timer !== undefined) continue;`
             /\ mw' = [mw EXCEPT !.queue = Tail(mw.queue), !.touched = touched,
                                 !.removed = removed, !.pending = sched.pending,
                                 !.timer = sched.timer]
             /\ UNCHANGED << alive, nextPid, ctxFiles >>
        ELSE \* the batch is processed: kills, rerun, reset, yield
             LET left == killByRemovedPaths(removed, mw.tagged)
                 res == materializeOnce([alive |-> left, nextPid |-> nextPid,
                                         tagged |-> mw.tagged, ctxFiles |-> ctxFiles])
             IN /\ alive' = res.alive
                /\ nextPid' = res.nextPid
                /\ ctxFiles' = res.ctxFiles
                /\ mw' = [mw EXCEPT !.queue = Tail(mw.queue), !.touched = {},
                                    !.removed = {}, !.pending = FALSE,
                                    !.timer = sched.timer, !.tagged = res.tagged,
                                    !.runs = mw.runs + 1, !.yielded = mw.yielded + 1]
  /\ UNCHANGED << entry, kp, dr, adoptForeign, utilVars, sessions, fs, now, worldLeft, notify,
                  orchVars, aborted, reconcileRunning, reconcileQueued, debounceTimer,
                  wpc, wphase, toSpawn, wtodo, activePasses, passes, coalesced, port, wlog,
                  quietPasses, lastPass >>

\* the debounce timeout fires: `timer = undefined`
DebounceElapsed ==
  /\ entry = "materialize-watch"
  /\ mw.timer
  /\ mw' = [mw EXCEPT !.timer = FALSE]
  /\ UNCHANGED << entry, kp, dr, adoptForeign, utilVars, sessions, worldVars, orchVars, watchVars,
                  quietPasses, lastPass >>

InitMaterializeWatch ==
  /\ entry = "materialize-watch"
  /\ fs \in [DbPaths -> InitialFiles]
  /\ alive = {}
  /\ nextPid = 1
  /\ jsonFiles = [p \in JsonPaths |-> None]
  /\ pidsFile = None
  /\ ctxFiles = [p \in CtxPaths |-> None]
  /\ worldLeft = MaxEvents
  /\ ProcessStart
  /\ kp = NoKill
  /\ dr = NoReconcile
  /\ sessions = << >>
  /\ mw = [NoMaterializeWatch EXCEPT !.pc = "boot"]
  /\ UtilIdle
  /\ DefaultOptions

NextMaterializeWatch ==
  \/ MaterializeWatchStart
  \/ \E f \in DbPaths, kind \in { "create", "modify", "remove" }, c \in BOOLEAN :
       WatcherEvent(f, kind, c)
  \/ WatchLoopTurn
  \/ DebounceElapsed

SpecMaterializeWatch == InitMaterializeWatch /\ [][NextMaterializeWatch]_vars

\* the generator, the watcher's delivery and the timeout all make progress
FairMaterializeWatch ==
  /\ SpecMaterializeWatch
  /\ WF_vars(MaterializeWatchStart)
  /\ WF_vars(WatchLoopTurn)
  /\ WF_vars(DebounceElapsed)

(* ------------------------------ path functions --------------------------- *)
\* The functions that derive a service's relative path, id and proxy prefix
\* from the roots and the file, applied to roots and files drawn at the start.
\* Roots may be nested (/a and /a/b) and a root may be a file (/a/x.db).

RootChoices == { << "a" >>, << "a", "b" >>, << "c" >>, << "a", "x.db" >> }

PathFiles == { << "a", "x.db" >>, << "a", "b", "x.db" >>, << "a", "b" >>,
               << "c", "x.db" >>, << "d", "x.db" >>, << "a", "a", "x.db" >> }

\* the lists of distinct roots
RootLists ==
  UNION { { l \in [1..n -> RootChoices] : \A i, j \in 1..n : i # j => l[i] # l[j] } :
          n \in 1..MaxRoots }

\* the name without extname(name)
stemOf(name) == IF name = "x.db" THEN "x" ELSE name

\* stripOneExt(p): the extension of a path is the extension of its last segment
stripOneExt(p) ==
  IF p = << >> THEN p ELSE SubSeq(p, 1, Len(p) - 1) \o << stemOf(p[Len(p)]) >>

\* proxyPrefixFromRel(relFromRoot): "/" is << >>, "/s1/s2" is <<s1, s2>>
proxyPrefixFromRel(relFromRoot) ==
  LET clean == stripOneExt(relFromRoot) IN
  IF clean = << >> THEN << >> ELSE clean

\* the orchestrator (computeRelPath, computeInstanceId) and the session code
\* (relFromRoots, proxyPrefixFromRel) resolve the file against the roots
ResolvePaths ==
  /\ entry = "paths"
  /\ pf.pc = "input"
  /\ pf' = [pf EXCEPT !.pc = "done",
                      !.rel = computeRelPath(pf.roots, pf.file),
                      !.id = computeInstanceId(pf.roots, pf.file, None),
                      !.relFromRoot = relFromRoots(pf.file, pf.roots),
                      !.proxyEndpointPrefix =
                         proxyPrefixFromRel(relFromRoots(pf.file, pf.roots))]
  /\ UNCHANGED << entry, kp, dr, adoptForeign, sessions, mw, ex, sg, worldVars,
                  orchVars, watchVars, quietPasses, lastPass >>

InitPaths ==
  /\ entry = "paths"
  /\ fs = [f \in DbPaths |-> AbsentFile]
  /\ alive = {}
  /\ nextPid = 1
  /\ jsonFiles = [p \in JsonPaths |-> None]
  /\ pidsFile = None
  /\ ctxFiles = [p \in CtxPaths |-> None]
  /\ worldLeft = 0
  /\ ProcessStart
  /\ kp = NoKill
  /\ dr = NoReconcile
  /\ sessions = << >>
  /\ mw = NoMaterializeWatch
  /\ ex = NoExit
  /\ sg = NoSpawn
  /\ DefaultOptions
  /\ \E roots \in RootLists, file \in PathFiles :
       pf = [NoPaths EXCEPT !.pc = "input", !.roots = roots, !.file = file]

NextPaths == ResolvePaths

SpecPaths == InitPaths /\ [][NextPaths]_vars

(* ------------------------------ exit routine ----------------------------- *)
\* The SIGINT and SIGTERM listeners and the unload listener of bin/yard.ts
\* around runExitKillOnce.  The watchers keep the process alive, so unload is
\* dispatched only by Deno.exit, where runExitKillOnce has already run.

ExitSignals == { "SIGINT", "SIGTERM" }

exitCode(sig) == IF sig = "SIGINT" THEN 130 ELSE 143

\* the pids that killAllOwnedSessions reads from spawned-pids.txt, sorted
uniquePids ==
  SortSet(IF IsSome(pidsFile)
          THEN { Val(pidsFile).pids[i] : i \in 1..Len(Val(pidsFile).pids) }
          ELSE {})

\* `if (exitKillRan) return;` without the test
skipWhenRanNever(ran) == FALSE

\* `if (exitKillRan) return;`
skipWhenRan(ran) == ran

\* a signal listener runs: `runExitKillOnce().finally(() => Deno.exit(code))`
SignalArrives(sig) ==
  /\ entry = "exit"
  /\ ex.pc = "running"
  /\ ex.signals < MaxSignals
  /\ IF skipWhenRan(ex.exitKillRan)
     THEN \* the promise is resolved already: Deno.exit follows at once
          /\ ex' = [ex EXCEPT !.pc = "exited", !.code = exitCode(sig),
                              !.signals = ex.signals + 1]
          /\ UNCHANGED closed
     ELSE /\ closed' = TRUE
          /\ IF ex.killAllOnExit
             THEN ex' = [ex EXCEPT !.exitKillRan = TRUE, !.sweep = "running",
                                   !.sweeps = ex.sweeps + 1, !.todo = uniquePids,
                                   !.code = exitCode(sig), !.signals = ex.signals + 1]
             ELSE ex' = [ex EXCEPT !.exitKillRan = TRUE, !.pc = "exited",
                                   !.code = exitCode(sig), !.signals = ex.signals + 1]
  /\ UNCHANGED << entry, kp, dr, adoptForeign, sessions, mw, pf, sg, worldVars,
                  runningByDb, jsonFiles, pidsFile, pending, failuresByDb, opc, todo,
                  live, counters, oActive, started, watchVars, quietPasses, lastPass >>

\* killAllOwnedSessions: one pid of the loop over uniquePids
SweepStep ==
  /\ entry = "exit"
  /\ ex.pc = "running"
  /\ ex.sweep = "running"
  /\ ex.todo # << >>
  /\ alive' = IF isPidAlive(Head(ex.todo)) THEN stopByPid(Head(ex.todo)) ELSE alive
  /\ ex' = [ex EXCEPT !.todo = Tail(ex.todo)]
  /\ UNCHANGED << entry, kp, dr, adoptForeign, sessions, mw, pf, sg, fs, nextPid, now,
                  worldLeft, notify, orchVars, watchVars, quietPasses, lastPass >>

\* killAllOwnedSessions returns, the promise of the first listener settles
\* and its `.finally` calls Deno.exit
SweepFinish ==
  /\ entry = "exit"
  /\ ex.pc = "running"
  /\ ex.sweep = "running"
  /\ ex.todo = << >>
  /\ ex' = [ex EXCEPT !.sweep = "done", !.pc = "exited"]
  /\ UNCHANGED << entry, kp, dr, adoptForeign, sessions, mw, pf, sg, worldVars,
                  orchVars, watchVars, quietPasses, lastPass >>

InitExit ==
  /\ entry = "exit"
  /\ fs = [f \in DbPaths |-> AbsentFile]
  /\ alive \in SUBSET { 1, 2 }
  /\ nextPid = 3
  /\ jsonFiles = [p \in JsonPaths |-> None]
  /\ pidsFile \in { None } \cup
                  { Some([pids |-> l, mtime |-> 0]) :
                      l \in { << >>, << 1 >>, << 2 >>, << 1, 2 >>, << 2, 1 >> } }
  /\ ctxFiles = [p \in CtxPaths |-> None]
  /\ worldLeft = 0
  /\ ProcessStart
  /\ kp = NoKill
  /\ dr = NoReconcile
  /\ sessions = << >>
  /\ mw = NoMaterializeWatch
  /\ pf = NoPaths
  /\ sg = NoSpawn
  /\ DefaultOptions
  /\ \E k \in BOOLEAN : ex = [NoExit EXCEPT !.pc = "running", !.killAllOnExit = k]

NextExit ==
  \/ \E sig \in ExitSignals : SignalArrives(sig)
  \/ SweepStep
  \/ SweepFinish

SpecExit == InitExit /\ [][NextExit]_vars

(* ------------------------ the spawn() generator ------------------------- *)

\* what one turn of the for-await loop of spawn() can meet: expose throws;
\* expose returns false; spawnStatePath or ensureParentDir throws, outside
\* every try block; service.spawn throws; the child runs and its context file
\* is written; the child runs and the write of the context file throws
GeneratorOutcomes == { "expose_error", "skip", "path_error", "spawn_error", "alive",
              "write_error" }

\* opts.portStart ?? 3000
PortStarts == { PortStart, PortStart + 1 }

\* one turn of the loop for the next service of exposable(tabular(srcPaths)),
\* up to its `continue`, its throw or its `yield ctx; port++`
SpawnTurn ==
  /\ entry = "spawn"
  /\ sg.pc = "running"
  /\ sg.todo # << >>
  /\ LET svc == Head(sg.todo)
         id == toExposableId(svc)
         rest == [sg EXCEPT !.todo = Tail(@), !.visited = Append(@, id)]
         ctx == [id |-> id, pid |-> nextPid, loc |-> svc, port |-> sg.port]
         yields == [rest EXCEPT !.spawned = Append(@, id),
                                !.yielded = Append(@, [id |-> id, port |-> sg.port]),
                                !.port = @ + 1]
     IN \E outcome \in GeneratorOutcomes :
          CASE outcome \in { "expose_error", "spawn_error" } ->
                 /\ sg' = [rest EXCEPT !.errored = Append(@, id)]
                 /\ UNCHANGED << alive, nextPid, ctxFiles >>
            [] outcome = "skip" ->
                 /\ sg' = [rest EXCEPT !.skipped = Append(@, id)]
                 /\ UNCHANGED << alive, nextPid, ctxFiles >>
            [] outcome = "path_error" ->
                 /\ sg' = [rest EXCEPT !.pc = "thrown"]
                 /\ UNCHANGED << alive, nextPid, ctxFiles >>
            [] outcome = "alive" ->
                 /\ nextPid' = nextPid + 1
                 /\ alive' = alive \cup {nextPid}
                 /\ ctxFiles' = [ctxFiles EXCEPT ![spawnedLedgerPathForEntry(svc)] = Some(ctx)]
                 /\ sg' = yields
            [] outcome = "write_error" ->
                 /\ nextPid' = nextPid + 1
                 /\ alive' = alive \cup {nextPid}
                 /\ sg' = yields
                 /\ UNCHANGED ctxFiles
  /\ UNCHANGED << entry, kp, dr, adoptForeign, sessions, mw, pf, ex, fs, now, worldLeft,
                  notify, orchVars, aborted, reconcileRunning, reconcileQueued,
                  debounceTimer, wpc, wphase, toSpawn, wtodo, activePasses, passes,
                  coalesced, port, wlog, quietPasses, lastPass >>

\* the loop is over: `return summary`
SpawnReturn ==
  /\ entry = "spawn"
  /\ sg.pc = "running"
  /\ sg.todo = << >>
  /\ sg' = [sg EXCEPT !.pc = "returned"]
  /\ UNCHANGED << entry, kp, dr, adoptForeign, sessions, mw, pf, ex, worldVars,
                  orchVars, watchVars, quietPasses, lastPass >>

\* spawn(srcPaths, expose, spawnStatePath, opts) is called and its consumer
\* calls next() until it is done; no child runs yet
InitSpawn ==
  /\ entry = "spawn"
  /\ fs \in [DbPaths -> { AbsentFile, [exists |-> TRUE, ver |-> 0, cls |-> TRUE] }]
  /\ alive = {}
  /\ nextPid = 1
  /\ jsonFiles = [p \in JsonPaths |-> None]
  /\ pidsFile = None
  /\ ctxFiles = [p \in CtxPaths |-> None]
  /\ worldLeft = 0
  /\ ProcessStart
  /\ kp = NoKill
  /\ dr = NoReconcile
  /\ sessions = << >>
  /\ mw = NoMaterializeWatch
  /\ pf = NoPaths
  /\ ex = NoExit
  /\ DefaultOptions
  /\ \E p \in PortStarts :
       sg = [NoSpawn EXCEPT !.pc = "running", !.todo = exposable, !.portStart = p,
                            !.port = p]

NextSpawn == SpawnTurn \/ SpawnReturn

SpecSpawn == InitSpawn /\ [][NextSpawn]_vars

(* ------------------------------ properties ------------------------------ *)

\* the orchestrator pass handles dbAbsPath in this step (one call of
\* ensureSpawnedForDb or stopForDb)
orchHandles(dbAbsPath) ==
  /\ entry = "orch"
  /\ opc \in { "ensure", "delta" }
  /\ todo # << >>
  /\ Head(todo) = dbAbsPath
  /\ todo' # todo

\* a spawn is attempted in this step: a pid is consumed or a failure is noted
spawnAttempted == nextPid' # nextPid \/ failuresByDb' # failuresByDb

\* C1: at most one reconciliation pass executes at any moment: in watch mode
\* no reconcileOnce pass starts while another is running, whatever the
\* interleaving of the initial, debounced filesystem and periodic-timer
\* triggers; the orchestrator has at most one full or delta pass in flight.
C1_OnePassAtATime == activePasses <= 1 /\ oActive <= 1

\* two triggers met the running pass and neither started a second pass
C1_Witness ==
  /\ entry = "watch"
  /\ activePasses = 1
  /\ reconcileQueued
  /\ coalesced = 2

\* C2: triggers that reach the scheduler while a pass is running are
\* coalesced: when the pass finishes, exactly one follow-up pass starts if at
\* least one trigger arrived and the signal is not aborted, and none starts
\* otherwise; the queue holds at most one follow-up (the flag is set exactly
\* when triggers piled up, and only one pass can be in flight behind it).
C2_CoalescedFollowUp ==
  /\ [](reconcileQueued <=> coalesced > 0)
  /\ [][ (wphase = "end" /\ wphase' # "end") =>
           /\ passes' - passes = (IF coalesced > 0 /\ ~aborted THEN 1 ELSE 0)
           /\ activePasses' = passes' - passes ]_vars

\* a pass is about to finish with several coalesced triggers behind it
C2_Witness ==
  /\ wphase = "end"
  /\ coalesced = 2
  /\ reconcileQueued
  /\ ~aborted
  /\ passes < MaxPasses

\* C3: once the signal is aborted no reconcileOnce pass starts: not from the
\* debounce timeout, not from the periodic timer, not from a queued follow-up.
C3_NoPassAfterAbort == [][ aborted => passes' = passes ]_vars

\* the pass finished after the abort with a follow-up queued, and none started
C3_Witness ==
  /\ aborted
  /\ reconcileQueued
  /\ activePasses = 0
  /\ passes < MaxPasses

\* C4: watchYardInSession returns only after the reconcileOnce pass that was
\* running when the signal aborted has finished.
C4_ReturnsAfterPass == wpc = "returned" => activePasses = 0

\* C5: at most one alive pid is recorded per service id: two records of the
\* running set (orchestrator) or two context files (watch mode) that carry
\* the same id and alive pids carry the same pid.
C5_OneAlivePidPerId ==
  /\ \A d1, d2 \in DbPaths :
       ( /\ IsSome(runningByDb[d1]) /\ IsSome(runningByDb[d2])
         /\ Val(runningByDb[d1]).id = Val(runningByDb[d2]).id
         /\ isPidAlive(Val(runningByDb[d1]).pid)
         /\ isPidAlive(Val(runningByDb[d2]).pid) )
       => Val(runningByDb[d1]).pid = Val(runningByDb[d2]).pid
  /\ \A p1, p2 \in CtxPaths :
       ( /\ IsSome(ctxFiles[p1]) /\ IsSome(ctxFiles[p2])
         /\ Val(ctxFiles[p1]).id = Val(ctxFiles[p2]).id
         /\ isPidAlive(Val(ctxFiles[p1]).pid)
         /\ isPidAlive(Val(ctxFiles[p2]).pid) )
       => Val(ctxFiles[p1]).pid = Val(ctxFiles[p2]).pid

\* the pids listed in spawned-pids.txt
pidsInFile(file) ==
  IF IsSome(file) THEN { Val(file).pids[i] : i \in 1..Len(Val(file).pids) } ELSE {}

\* C6 (orchestrator part): the pass that handles a removed file with a record
\* leaves the pid not alive, the record's JSON file absent and the pid out of
\* spawned-pids.txt.
orchRemovedIsStopped ==
  \A d \in DbPaths :
    ( /\ entry = "orch"
      /\ opc \in { "stop", "delta" }
      /\ todo # << >>
      /\ Head(todo) = d
      /\ todo' # todo
      /\ ~fs[d].exists
      /\ IsSome(runningByDb[d]) )
    => LET rec == Val(runningByDb[d]) IN
       /\ rec.pid \notin alive'
       /\ ~IsSome(jsonFiles'[spawnedJsonPath(rec.dbBasename, rec.id)])
       /\ rec.pid \notin pidsInFile(pidsFile')

\* C6 (watch part): the reconcileOnce pass leaves the pid of a context file
\* whose source file is gone not alive, and the context file absent.
watchRemovedIsStopped ==
  \A p \in CtxPaths :
    ( /\ entry = "watch"
      /\ wphase = "kill"
      /\ wphase' # "kill"
      /\ IsSome(ctxFiles[p])
      /\ ~fs[Val(ctxFiles[p]).loc].exists )
    => /\ Val(ctxFiles[p]).pid \notin alive'
       /\ ~IsSome(ctxFiles'[p])

\* C6: after the source file of a running service is removed, the next pass
\* (stopForDb in the orchestrator, reconcileOnce in watch mode) leaves the pid
\* not alive, the context file absent and spawned-pids.txt without the pid.
C6_RemovedIsStopped == [][ orchRemovedIsStopped /\ watchRemovedIsStopped ]_vars

\* the source file of a running service was removed and the pass stopped it
C6_OrchWitness ==
  /\ entry = "orch"
  /\ counters.stopped > 0
  /\ alive = {}
  /\ nextPid > 1

discoveryFailed ==
  /\ entry = "watch"
  /\ wphase = "kill"
  /\ wphase' = "end"
  /\ worldLeft' < worldLeft
  /\ toSpawn' = {}

C8_WatchWitness ==
  /\ entry = "watch"
  /\ 1 \notin alive
  /\ worldLeft = 0
  /\ \E p \in CtxPaths :
       /\ IsSome(ctxFiles[p])
       /\ Val(ctxFiles[p]).pid = 2
       /\ isPidAlive(2)
       /\ \A q \in CtxPaths \ {p} : ~IsSome(ctxFiles[q])

C9_ThrottledWitness ==
  /\ entry = "orch"
  /\ opc = "sleep"
  /\ counters.skipped > 0
  /\ \E d \in DbPaths :
       /\ IsSome(failuresByDb[d])
       /\ fs[d].exists
       /\ now - Val(failuresByDb[d]).lastFailAtMs = reconcileMs

\* C10: a successful spawn of a file clears the file's failure state
\* {lastFailAtMs, failCount}.
C10_SuccessClearsFailures ==
  [][ \A d \in DbPaths :
        ( /\ orchHandles(d)
          /\ counters'.spawned = counters.spawned + 1 )
        => ~IsSome(failuresByDb'[d]) ]_vars

\* some record of the running set, some context file or spawned-pids.txt
\* carries the pid
pidRecorded(rb, json, file, pid) ==
  \/ \E e \in DbPaths : IsSome(rb[e]) /\ Val(rb[e]).pid = pid
  \/ \E p \in JsonPaths : IsSome(json[p]) /\ Val(json[p]).pid = pid
  \/ pid \in pidsInFile(file)

C11_AliveWitness ==
  /\ entry = "orch"
  /\ now = FAST_EXIT_MS
  /\ isPidAlive(1)
  /\ \E d \in DbPaths :
       /\ IsSome(runningByDb[d])
       /\ Val(runningByDb[d]).pid = 1
       /\ jsonFiles[spawnedJsonPath(safeBaseName(d), Val(runningByDb[d]).id)] = runningByDb[d]

\* C13: a supervisor started while the child recorded by an earlier session
\* is alive performs zero spawns and zero stops: as long as nothing changes
\* outside (no file change, no child death, no failed spawn), no pid is
\* handed out, the earlier child stays alive and the counters of spawned and
\* stopped stay zero.
C13_RestartIdempotence ==
  worldLeft = MaxWorld
    => /\ nextPid = 2
       /\ isPidAlive(1)
       /\ counters.spawned = 0
       /\ counters.stopped = 0
\* the record carries another owner token than this supervisor's
isForeign(rec) == rec.owner # ownerToken

\* C14: with adoptForeignState disabled no step of the orchestrator ends the
\* process of a foreign record: the pid of a context file or of a running-set
\* entry whose owner token differs from the orchestrator's stays alive across
\* every step the orchestrator takes (a foreign entry is only dropped from the
\* running set).
C14_ForeignPidNotSignalled ==
  [][ (entry = "orch" /\ worldLeft' = worldLeft)
        => /\ \A p \in JsonPaths :
                ( /\ IsSome(jsonFiles[p])
                  /\ isForeign(Val(jsonFiles[p]))
                  /\ isPidAlive(Val(jsonFiles[p]).pid) )
                => Val(jsonFiles[p]).pid \in alive'
           /\ \A d \in DbPaths :
                ( /\ IsSome(runningByDb[d])
                  /\ isForeign(Val(runningByDb[d]))
                  /\ isPidAlive(Val(runningByDb[d]).pid) )
                => Val(runningByDb[d]).pid \in alive' ]_vars

\* the database of a foreign record was removed, the delta pass handled the
\* removal, and the foreign child still runs
C14_Witness ==
  /\ entry = "orch"
  /\ opc = "sleep"
  /\ now >= reconcileMs
  /\ pending = {}
  /\ notify = {}
  /\ worldLeft = 0
  /\ \E p \in JsonPaths :
       /\ IsSome(jsonFiles[p])
       /\ isForeign(Val(jsonFiles[p]))
       /\ ~fs[Val(jsonFiles[p]).dbPath].exists
       /\ isPidAlive(Val(jsonFiles[p]).pid)

\* C15: with adoptForeignState disabled no step of the orchestrator (startup
\* adoption, spawn, stop, garbage collection) deletes or overwrites a context
\* file whose owner token differs from the orchestrator's.
C15_ForeignFilesUntouched ==
  [][ entry = "orch"
        => \A p \in JsonPaths :
             (IsSome(jsonFiles[p]) /\ isForeign(Val(jsonFiles[p])))
             => jsonFiles'[p] = jsonFiles[p] ]_vars

\* C16: every write of spawned-pids.txt leaves in it the ascending,
\* duplicate-free list of exactly the pids that are alive and recorded in the
\* running set under this session's owner token.
C16_PidsFileIsAliveOwned ==
  [][ pidsFile' # pidsFile
        => Val(pidsFile').pids = SortSet(
             { Val(runningByDb'[d]).pid : d \in { e \in DbPaths :
                 /\ IsSome(runningByDb'[e])
                 /\ ~isForeign(Val(runningByDb'[e]))
                 /\ Val(runningByDb'[e]).pid \in alive' } }) ]_vars

\* C17: writeSpawnedPidsFile performs no write and no rename when the list it
\* would write equals the content of spawned-pids.txt: across every step that
\* leaves the list unchanged, the file is the same file, modification time
\* included.
C17_NoRewriteOfEqualContent ==
  [][ ( /\ IsSome(pidsFile)
        /\ IsSome(pidsFile')
        /\ Val(pidsFile').pids = Val(pidsFile).pids )
      => pidsFile' = pidsFile ]_vars

\* the restarted orchestrator adopted the earlier child: the list it computed
\* is the one on disk, and the file still carries the earlier write's time
C17_Witness ==
  /\ entry = "orch"
  /\ opc = "begin"
  /\ \E d \in DbPaths : IsSome(runningByDb[d]) /\ Val(runningByDb[d]).pid = 1
  /\ pidsFile = Some([pids |-> << 1 >>, mtime |-> EarlierMs])

\* C18: context files and the pid file are replaced atomically (written to a
\* temporary file that is renamed onto the target), so whenever a concurrent
\* reader opens a context file it finds a complete document.
C18_NoPartialFile ==
  \A p \in CtxPaths : ctxFiles[p] # Some(PartialContext)

\* C19: every spawn of a watch-mode pass, the first and the later ones, gets
\* a port from portStart on that is not the listen port of any context file
\* whose pid is alive.
C19_PortNotInUse ==
  [][ (entry = "watch" /\ wphase = "spawn" /\ nextPid' # nextPid)
        => /\ port >= PortStart
           /\ \A p \in CtxPaths :
                (IsSome(ctxFiles[p]) /\ isPidAlive(Val(ctxFiles[p]).pid))
                => Val(ctxFiles[p]).port # port ]_vars

\* C20: every delta pass of the periodic loop is followed by a full pass on
\* the periodic timer: the pass that the timer starts after a delta pass is a
\* full pass, whenever filesystem events arrive.
C20_FullAfterDelta ==
  [][ (entry = "orch" /\ lastPass = "delta" /\ opc = "sleep" /\ opc' # "sleep")
        => lastPass' = "full" ]_vars

\* a step of a full pass that is at least the second full pass begun since the
\* last file change or child death: reconcileFull in the orchestrator,
\* reconcileOnce in watch mode
secondPassStep ==
  /\ quietPasses = 2
  /\ \/ entry = "orch" /\ opc \in { "ensure", "stop" } /\ (todo' # todo \/ opc' # opc)
     \/ entry = "watch" /\ wphase \in { "kill", "spawn", "write" }
          /\ (wtodo' # wtodo \/ wphase' # wphase)

\* the step acts: it spawns or tries to, stops or kills, refreshes or skips
passActs ==
  \/ counters' # counters
  \/ nextPid' # nextPid
  \/ alive' # alive
  \/ worldLeft' # worldLeft
  \/ ctxFiles' # ctxFiles

\* every service is running: each existing file has an alive record, or it has
\* no driver and is not in a backoff window (orchestrator); each discovered id
\* has a context file with an alive pid (watch mode)
allSettled ==
  IF entry = "orch"
  THEN \A d \in DbPaths :
         fs[d].exists => \/ existingAlive(d)
                         \/ ~fs[d].cls /\ ~shouldThrottle(d)
  ELSE \A i \in WatchIds :
         IsSome(discoverServices[i])
           => IsSome(readLedger[i]) /\ isPidAlive(Val(readLedger[i]).pid)

settledPassStep ==
  /\ secondPassStep
  /\ allSettled
  /\ entry = "watch" => (wphase = "kill" /\ worldLeft' = worldLeft)

C12_WatchWitness ==
  /\ entry = "watch"
  /\ quietPasses = 2
  /\ wphase = "end"
  /\ allSettled
  /\ alive # {}

\* an orchestrator step in which the child was started and is alive but
\* writeSpawnedRecord threw: no context file was written
writeFailed ==
  /\ entry = "orch"
  /\ nextPid' # nextPid
  /\ nextPid \in alive'
  /\ jsonFiles' = jsonFiles

\* C21: a failure to write the context record of one service does not
\* propagate out of the reconciler: the pass goes on with the remaining
\* services (or finishes) and the periodic loop stays alive.
C21_WriteErrorIsContained ==
  [][ writeFailed
        => /\ opc' # "crashed"
           /\ oActive' = oActive \/ opc' \in { "sleep", "exited" } ]_vars

\* a turn of the spawn() generator in which the handling of the service
\* failed (a step of the pass that uses up one of the world's failures)
spawnFailed ==
  /\ entry = "watch"
  /\ wphase = "spawn"
  /\ worldLeft' # worldLeft
  /\ fs' = fs
  /\ alive \subseteq alive'

\* C22: in the spawn() pass a failure while handling one service does not
\* abort the pass: the generator goes on with the services that follow the
\* failed one.
C22_FailureDoesNotAbortPass ==
  [][ spawnFailed => wtodo' = Tail(wtodo) ]_vars

\* killPID is called in this step
killCalled == entry = "kill" /\ kp'.calls # kp.calls

lastSent == kp'.sent[Len(kp'.sent)]

C24_PidWitness ==
  /\ entry = "kill"
  /\ kp.pc = "done"
  /\ kp.sent = << << "pid", "SIGTERM" >>, << "pid", "SIGKILL" >> >>

\* the tagged process pid and the context record at path match: the tag names
\* the record's file, or the record carries the pid
tagMatches(pid, path) == dr.tags[pid] = Some(path) \/ dr.ledger[path] = pid

\* the items of a kind that reconcile yielded
itemsOf(kind) == { i \in 1..Len(dr.items) : dr.items[i].kind = kind }

\* C25: reconcile(home) yields exactly one ledger_without_process item for
\* every context record whose pid is not alive or that no tagged process
\* matches, exactly one process_without_ledger item for every tagged process
\* that no context record matches, and its summary counts the items yielded.
C25_OneItemPerDiscrepancy ==
  dr.pc = "done" =>
    /\ \A path \in CtxPaths :
         dr.ledger[path] # 0 =>
           Cardinality({ i \in itemsOf("ledger_without_process") :
                           dr.items[i].path = path })
             = IF \/ ~isPidAlive(dr.ledger[path])
                  \/ \A pid \in RecPids :
                       (isPidAlive(pid) /\ IsSome(dr.tags[pid])) => ~tagMatches(pid, path)
               THEN 1 ELSE 0
    /\ \A pid \in RecPids :
         (isPidAlive(pid) /\ IsSome(dr.tags[pid])) =>
           Cardinality({ i \in itemsOf("process_without_ledger") :
                           dr.items[i].pid = pid })
             = IF \A path \in CtxPaths : dr.ledger[path] # 0 => ~tagMatches(pid, path)
               THEN 1 ELSE 0
    /\ dr.summary.processWithoutLedger = Cardinality(itemsOf("process_without_ledger"))
    /\ dr.summary.ledgerWithoutProcess = Cardinality(itemsOf("ledger_without_process"))

\* C26: the kill command for a spawn-state home signals every live pid that
\* the ledger under that home records, and no process that the ledger does
\* not reference.
C26_KillsWhatTheLedgerRecords ==
  [][ (entry = "kill-command" /\ dr.pc = "input" /\ dr'.pc = "killed")
        => /\ \A p \in CtxPaths :
                (dr.ledger[p] # 0 /\ isPidAlive(dr.ledger[p]))
                  => dr.ledger[p] \in dr'.signalled
           /\ \A pid \in dr'.signalled :
                \E p \in CtxPaths : dr.ledger[p] = pid ]_vars

\* C27: every context file that the session writes, on spawn and on refresh
\* (the refresh of an adopted record included), carries the session's own
\* owner token.
C27_WritesCarryOwnToken ==
  [][ \A p \in JsonPaths :
        (entry = "orch" /\ jsonFiles'[p] # jsonFiles[p] /\ IsSome(jsonFiles'[p]))
          => Val(jsonFiles'[p]).owner = ownerToken ]_vars

\* C29 (orchestrator part): the pass that handles an existing file that no
\* driver is chosen for, whose recorded pid is alive, leaves the pid not alive.
orchUnclassifiedIsStopped ==
  \A d \in DbPaths :
    ( /\ entry = "orch"
      /\ opc \in { "ensure", "delta" }
      /\ todo # << >>
      /\ Head(todo) = d
      /\ todo' # todo
      /\ fs[d].exists
      /\ ~fs[d].cls
      /\ IsSome(runningByDb[d])
      /\ isPidAlive(Val(runningByDb[d]).pid) )
    => Val(runningByDb[d]).pid \notin alive'

\* C29 (watch part): the kill loop of reconcileOnce leaves the pid of a
\* context file whose source file exists and is not exposable not alive.
watchUnclassifiedIsStopped ==
  \A p \in CtxPaths :
    ( /\ entry = "watch"
      /\ wphase = "kill"
      /\ wphase' # "kill"
      /\ IsSome(ctxFiles[p])
      /\ fs[Val(ctxFiles[p]).loc].exists
      /\ ~fs[Val(ctxFiles[p]).loc].cls
      /\ isPidAlive(Val(ctxFiles[p]).pid) )
    => Val(ctxFiles[p]).pid \notin alive'

\* C29: when the source file of a running service still exists and is no
\* longer exposable, the next pass that handles it (ensureSpawnedForDb in the
\* orchestrator, the kill loop of reconcileOnce in watch mode) stops the
\* service's process.
C29_UnclassifiedIsStopped ==
  [][ orchUnclassifiedIsStopped /\ watchUnclassifiedIsStopped ]_vars

\* C28: any two sessions created under the ledger root have distinct session
\* directories.
C28_SessionDirsDistinct ==
  \A i, j \in 1..Len(sessions) :
    i # j => sessions[i].sessionHome # sessions[j].sessionHome

\* C30: materializeWatch yields a result for the initial run, and every batch
\* of filesystem events it has collected is eventually followed by a rerun of
\* materializeOnce and one more yielded result.
C30_BatchLeadsToYield ==
  /\ (mw.pc = "boot") ~> (mw.yielded >= 1)
  /\ \A n \in 0..(MaxEvents + 1) :
       (mw.touched # {} /\ mw.runs = n /\ mw.yielded = n)
         ~> (mw.runs > n /\ mw.yielded > n)

\* the root lists that hold the same roots as `roots`, in any order
sameRoots(roots) ==
  { l \in RootLists : { l[i] : i \in 1..Len(l) } = { roots[i] : i \in 1..Len(roots) } }

\* the root of `roots` with the longest prefix of the file
longestRoot(roots, file) ==
  LET cand == { roots[i] : i \in { j \in 1..Len(roots) : IsPrefix(roots[j], file) } }
  IN IF cand = {} THEN None
     ELSE Some(CHOOSE r \in cand : \A q \in cand : Len(q) <= Len(r))

\* C31: the relative path and the id that the orchestrator computes, and the
\* relative path that the session code computes, are taken from the root with
\* the longest prefix of the file, and are the same for every order in which
\* the same roots are listed.
C31_LongestRootAnyOrder ==
  pf.pc = "done" =>
    /\ \A other \in sameRoots(pf.roots) :
         /\ computeRelPath(other, pf.file) = pf.rel
         /\ computeInstanceId(other, pf.file, None) = pf.id
         /\ relFromRoots(pf.file, other) = pf.relFromRoot
    /\ LET best == longestRoot(pf.roots, pf.file) IN
       IsSome(best) =>
         /\ pf.rel = computeRelPath(<< Val(best) >>, pf.file)
         /\ pf.relFromRoot = relFromRoots(pf.file, << Val(best) >>)

\* C32: a candidate whose absolute path equals a root yields
\* proxyEndpointPrefix "/".
C32_RootCandidateHasSlashPrefix ==
  (pf.pc = "done" /\ \E i \in 1..Len(pf.roots) : pf.roots[i] = pf.file)
    => pf.proxyEndpointPrefix = << >>

\* C33: two distinct running records of the orchestrator never map to the
\* same context file path, and in watch mode no two context files of the
\* session carry the same service id.
C33_OneContextFilePerRecord ==
  /\ \A d1, d2 \in DbPaths :
       ( /\ d1 # d2
         /\ IsSome(runningByDb[d1]) /\ IsSome(runningByDb[d2]) )
       => spawnedJsonPath(Val(runningByDb[d1]).dbBasename, Val(runningByDb[d1]).id)
            # spawnedJsonPath(Val(runningByDb[d2]).dbBasename, Val(runningByDb[d2]).id)
  /\ \A p1, p2 \in CtxPaths :
       ( /\ p1 # p2
         /\ IsSome(ctxFiles[p1]) /\ IsSome(ctxFiles[p2]) )
       => Val(ctxFiles[p1]).id # Val(ctxFiles[p2]).id

\* C34: once Orchestrator.close() was called, the periodic loop starts no
\* further pass (no reconcileFull or reconcileDelta call begins).
C34_NoPassAfterClose ==
  [][ (entry = "orch" /\ closed) => oActive' <= oActive ]_vars

\* the paths of the batch that the running pass was given
batchOf(seq) == { seq[i] : i \in 1..Len(seq) }

C36_SweepOnceBeforeExit ==
  ex.killAllOnExit =>
    /\ ex.sweeps <= 1
    /\ ex.pc = "exited" => ex.sweep = "done"

\* what the listener has received agrees with the position of the pass: no
\* reconcile_end while the pass runs, exactly one once it is over, and a
\* reason from the moment the first pass started
logMatchesPass ==
  /\ passes = 0 => wlog = EmptyLog
  /\ passes > 0 => wlog.reason \in { "initial", "fs", "timer" }
  /\ wphase \in { "kill", "spawn", "write" } => wlog.ends = 0
  /\ (passes > 0 /\ wphase \in { "end", "idle" }) => wlog.ends = 1

\* C37: in watch mode with a listener, a reconcile_start is emitted only when
\* no earlier pass is without its reconcile_end; from then on the events of
\* the pass keep the reason of that reconcile_start, and the pass is over only
\* after exactly one reconcile_end, whichever of discovery, ledger reading and
\* spawning failed (killPID never throws).
C37_StartThenOneEnd ==
  [][ (entry = "watch" /\ wlog.on) =>
        /\ logMatchesPass
        /\ logMatchesPass'
        /\ passes' # passes =>
             /\ passes' = passes + 1
             /\ passes > 0 => wlog.ends = 1
             /\ wlog'.ends = 0
             /\ wlog'.errors = {}
        /\ passes' = passes =>
             /\ wlog'.reason = wlog.reason
             /\ wlog.errors \subseteq wlog'.errors
             /\ wlog'.ends \in { wlog.ends, wlog.ends + 1 } ]_vars

\* the second pass, started by the periodic timer, met an error and has
\* emitted its reconcile_end
C37_Witness ==
  /\ entry = "watch"
  /\ wlog.on
  /\ passes = 2
  /\ wlog.reason = "timer"
  /\ wlog.errors # {}
  /\ wlog.ends = 1

\* a context file records the pid for a service that is no longer discovered
\* or whose source file is gone
recordedAsGone(p) ==
  \E path \in CtxPaths :
    /\ IsSome(ctxFiles[path])
    /\ Val(ctxFiles[path]).pid = p
    /\ Val(ctxFiles[path]).loc \in DbPaths
    /\ \/ ~fs[Val(ctxFiles[path]).loc].exists
       \/ \A f \in DbPaths :
            (fs[f].exists /\ fs[f].cls) => toExposableId(f) # Val(ctxFiles[path]).id

\* C38: the step of reconcileOnce that discovers, reads the ledger and runs
\* the kill loop ends only processes that a context file records for a
\* service no longer discovered or a source file no longer there; when
\* discovery fails the step kills nothing and leaves nothing to spawn, and the
\* pass is over with that step.
C38_KillsOnlyGoneServices ==
  [][ (entry = "watch" /\ wlog.on) =>
        /\ (wphase = "kill" /\ wphase' # "kill") =>
             /\ \A p \in alive \ alive' : recordedAsGone(p)
             /\ "discover" \in wlog'.errors =>
                  /\ alive' = alive
                  /\ toSpawn' = {}
                  /\ wphase' = "end"
        /\ "discover" \in wlog.errors =>
             /\ wphase \in { "end", "idle" }
             /\ (passes' = passes) => (nextPid' = nextPid /\ ctxFiles' = ctxFiles) ]_vars

\* the second pass has killed the process recorded for a removed file
C38_Witness ==
  /\ entry = "watch"
  /\ wlog.on
  /\ passes = 2
  /\ wphase = "end"
  /\ worldLeft = MaxWorld - 1
  /\ \E path \in CtxPaths :
       /\ IsSome(ctxFiles[path])
       /\ Val(ctxFiles[path]).pid > 0
       /\ ~isPidAlive(Val(ctxFiles[path]).pid)
       /\ ~fs[Val(ctxFiles[path]).loc].exists

\* a context file of the session directory records a live pid for the id
hasLiveRecord(id) ==
  \E path \in CtxPaths :
    /\ IsSome(ctxFiles[path])
    /\ Val(ctxFiles[path]).id = id
    /\ isPidAlive(Val(ctxFiles[path]).pid)

\* the spawn() generator driven by reconcileOnce starts a child
watchSpawns == entry = "watch" /\ wphase = "spawn" /\ nextPid' # nextPid

\* C39: in watch mode no child is started for a service id for which a
\* context file of the session directory records a live pid, whether or not
\* the pass could read the ledger.
C39_NoSpawnOverLiveRecord ==
  [][ watchSpawns => ~hasLiveRecord(toExposableId(Head(wtodo))) ]_vars

\* no other file under the roots has the id of the file
uniqueId(f) == \A g \in DbPaths : toExposableId(g) = toExposableId(f) => g = f

\* C39 for the services whose id no other file shares
C39_UniqueIdNoSpawnOverLiveRecord ==
  [][ (watchSpawns /\ uniqueId(Head(wtodo)))
        => ~hasLiveRecord(toExposableId(Head(wtodo))) ]_vars

\* C39 for the services whose id no other file shares, in the passes of a
\* session with a listener that read their ledger without an error
C39_UniqueIdNoSpawnOverLiveRecordWhenRead ==
  [][ (watchSpawns /\ uniqueId(Head(wtodo)) /\ wlog.on /\ "read_ledger" \notin wlog.errors)
        => ~hasLiveRecord(toExposableId(Head(wtodo))) ]_vars

\* how many times the id occurs in the list
RECURSIVE occurrences(_, _)
occurrences(list, id) ==
  IF list = << >> THEN 0
  ELSE (IF Head(list) = id THEN 1 ELSE 0) + occurrences(Tail(list), id)

\* the contexts yielded are those of summary.spawned, in order, on the ports
\* portStart, portStart + 1, ...
yieldsMatchSpawned ==
  /\ Len(sg.yielded) = Len(sg.spawned)
  /\ \A i \in 1..Len(sg.yielded) :
       /\ sg.yielded[i].id = sg.spawned[i]
       /\ sg.yielded[i].port = sg.portStart + i - 1

\* C40: when spawn() has returned its summary, every id it discovered is in
\* exactly one of the lists summary.spawned, summary.skipped and
\* summary.errored, and the yielded contexts are those of summary.spawned, in
\* the same order, on ports that start at portStart and grow by one.
C40_SummaryPartitionsIds ==
  sg.pc = "returned" =>
    /\ \A i \in 1..Len(sg.visited) :
         Cardinality({ list \in { "spawned", "skipped", "errored" } :
                         occurrences(sg[list], sg.visited[i]) > 0 }) = 1
    /\ yieldsMatchSpawned

\* C40 counted per service visited instead of per id: each turn of the loop
\* adds its id to one list
C40_OneListPerService ==
  sg.pc = "returned" =>
    /\ Len(sg.spawned) + Len(sg.skipped) + Len(sg.errored) = Len(sg.visited)
    /\ \A i \in 1..Len(sg.visited) :
         occurrences(sg.spawned, sg.visited[i]) + occurrences(sg.skipped, sg.visited[i])
           + occurrences(sg.errored, sg.visited[i]) = occurrences(sg.visited, sg.visited[i])
    /\ yieldsMatchSpawned

====
